---- MODULE Spec2Model ----
(***************************************************************************)
(* Model of the chat client: the App shell with its session handling, the  *)
(* shared socket (socket.ts), and the screens ChatRoom, FriendsList,       *)
(* Login, Register, Profile and Notifications, plus the context providers  *)
(* of the second client tree.  Every handler is one action; the effects    *)
(* React runs after the handler's render are part of the same action.      *)
(***************************************************************************)
EXTENDS Integers, Sequences, FiniteSets, Bags, TLC

(***************************************************************************)
(* Bounds of the model                                                     *)
(***************************************************************************)
MaxSockets == 6
MaxEvents == 3
MaxInFlight == 1
MaxRoomsInFlight == 2
MaxNotifs == 2
MaxFriends == 3
MaxHistory == 101

(***************************************************************************)
(* Values                                                                  *)
(***************************************************************************)
Nil == "<null>"
Undef == "<undefined>"
Truthy(s) == s # Nil /\ s # Undef /\ s # ""

Me == "alice"
Friends == {"bob", "carol"}
Rooms == {"General", "Random"}
Tabs == {"chat", "friends", "profile", "search", "notifications"}

None == <<>>
Some(x) == <<x>>
Get(o) == o[1]

User(n, b, a) == [username |-> n, bio |-> b, avatar |-> a]
Bios == {"", "b1"}
Avatars == {"", "a1"}
UserRecords == {User(Me, b, "") : b \in Bios}
Notes == {"n2"}
NetworkError == "Network error. Please try again."

\* ChatRoom.tsx:16
MAX_MESSAGES == 100

\* a Message record of ChatRoom.tsx:5-9; the timestamp is carried as text
Message(u, t) == [username |-> u, message |-> t, timestamp |-> "ts"]
MessageValues == {Message("bob", "hi"), Message(Me, "yo")}

(***************************************************************************)
(* State                                                                   *)
(***************************************************************************)
VARIABLES
  \* socket.ts: the module's socket (0 is null), every socket instance made
  \* so far with its connection state, and the listeners on each instance
  socket, sockState, listeners,
  \* App.tsx
  appMounted, isAuthenticated, user, showLogin, activeTab, appNotifications,
  selectedFriend, localStorage, appSock, verifyReqs, logoutReqs,
  appNotifReqs,
  \* Login.tsx
  loginUsername, loginPassword, loginError, loginIsLoading, loginReqs,
  loginDeadReqs,
  \* Register.tsx
  regUsername, regPassword, regConfirm, regError, regIsLoading, regReqs,
  regDeadReqs,
  \* ChatRoom.tsx
  messages, rooms, currentRoom, directChatMode, message, isTyping,
  typingTimer, orphanTimers, typingUsers, crSock, joinCleanup, roomsReqs,
  \* FriendsList.tsx, and the friends the server holds for the user
  friends, newFriend, flError, flSuccess, flIsLoading, suggestions,
  targetUser, isConnected, path, flFriendsReqs, flSuggReqs, flAddReqs,
  flRemoveReqs, flConnReqs, flPathReqs, serverFriends,
  \* the Notifications screen
  nfVariant, nfNotifications, nfIsLoading, nfError, nfSock, nfFetchReqs,
  nfClearReqs,
  \* Profile.tsx
  bio, avatar, profIsLoading, profError, profSuccess, profReqs,
  \* AuthProvider (part_007): the user and the token in local storage
  authUser, authToken,
  \* ChatProvider (ChatContext.tsx)
  cpMounted, cpSocket, cpInitSock, cpListenSock, cpFriends,
  cpFriendRequests, cpMessages, cpCurrentChat, cpLoadingFriends,
  cpLoadingMessages, cpFriendsReqs, cpRequestsReqs, cpMsgReqs, cpAcceptReqs,
  cpRejectReqs, cpRemoveReqs,
  \* NotificationProvider (part_007)
  npNotifications, npLoading, npLoadReqs, npClearReqs, npReadReqs,
  npReadAllReqs, npDeleteReqs,
  \* bookkeeping of the run: which client tree runs, the payloads ChatRoom
  \* received since its mount, the socket events the last step emitted, the
  \* last step with its outcome, the POST /api/friends requests issued, the
  \* number of events delivered, the payload of the event the last step
  \* delivered, how the promise of the call the last step settled ended, and
  \* the conversations joined and not left, with a mark once one was joined
  \* while another was open
  tree, received, emitted, lastOp, lastOutcome, posts, nEvents, lastEvent,
  callResult, joined

sockVars ==
  <<socket, sockState, listeners>>
appVars ==
  <<appMounted, isAuthenticated, user, showLogin, activeTab, appNotifications,
  selectedFriend, localStorage, appSock, verifyReqs, logoutReqs,
  appNotifReqs>>
loginVars ==
  <<loginUsername, loginPassword, loginError, loginIsLoading, loginReqs,
  loginDeadReqs>>
regVars ==
  <<regUsername, regPassword, regConfirm, regError, regIsLoading, regReqs,
  regDeadReqs>>
crVars ==
  <<messages, rooms, currentRoom, directChatMode, message, isTyping,
  typingTimer, orphanTimers, typingUsers, crSock, joinCleanup, roomsReqs>>
flVars ==
  <<friends, newFriend, flError, flSuccess, flIsLoading, suggestions,
  targetUser, isConnected, path, flFriendsReqs, flSuggReqs, flAddReqs,
  flRemoveReqs, flConnReqs, flPathReqs, serverFriends>>
nfVars ==
  <<nfVariant, nfNotifications, nfIsLoading, nfError, nfSock, nfFetchReqs,
  nfClearReqs>>
profVars ==
  <<bio, avatar, profIsLoading, profError, profSuccess, profReqs>>
authVars ==
  <<authUser, authToken>>
cpVars ==
  <<cpMounted, cpSocket, cpInitSock, cpListenSock, cpFriends,
  cpFriendRequests, cpMessages, cpCurrentChat, cpLoadingFriends,
  cpLoadingMessages, cpFriendsReqs, cpRequestsReqs, cpMsgReqs, cpAcceptReqs,
  cpRejectReqs, cpRemoveReqs>>
npVars ==
  <<npNotifications, npLoading, npLoadReqs, npClearReqs, npReadReqs,
  npReadAllReqs, npDeleteReqs>>
runVars ==
  <<tree, received, emitted, lastOp, lastOutcome, posts, nEvents, lastEvent,
  callResult, joined>>
vars ==
  <<sockVars, appVars, loginVars, regVars, crVars, flVars, nfVars, profVars,
  authVars, cpVars, npVars, runVars>>

\* the state as one record, so that a handler and the effects that follow
\* it compose as functions; userDirty, roomsDirty and authDirty mark a setUser
\* or setRooms with a new object, which re-runs the effects that depend on it
World ==
  [socket |-> socket, sockState |-> sockState, listeners |-> listeners,
   appMounted |-> appMounted, isAuthenticated |-> isAuthenticated,
   user |-> user, showLogin |-> showLogin, activeTab |-> activeTab,
   appNotifications |-> appNotifications, selectedFriend |-> selectedFriend,
   localStorage |-> localStorage, appSock |-> appSock,
   verifyReqs |-> verifyReqs, logoutReqs |-> logoutReqs,
   appNotifReqs |-> appNotifReqs, loginUsername |-> loginUsername,
   loginPassword |-> loginPassword, loginError |-> loginError,
   loginIsLoading |-> loginIsLoading, loginReqs |-> loginReqs,
   loginDeadReqs |-> loginDeadReqs, regUsername |-> regUsername,
   regPassword |-> regPassword, regConfirm |-> regConfirm,
   regError |-> regError, regIsLoading |-> regIsLoading,
   regReqs |-> regReqs, regDeadReqs |-> regDeadReqs, messages |-> messages,
   rooms |-> rooms, currentRoom |-> currentRoom,
   directChatMode |-> directChatMode, message |-> message,
   isTyping |-> isTyping, typingTimer |-> typingTimer,
   orphanTimers |-> orphanTimers, typingUsers |-> typingUsers,
   crSock |-> crSock, joinCleanup |-> joinCleanup, roomsReqs |-> roomsReqs,
   friends |-> friends, newFriend |-> newFriend, flError |-> flError,
   flSuccess |-> flSuccess, flIsLoading |-> flIsLoading,
   suggestions |-> suggestions, targetUser |-> targetUser,
   isConnected |-> isConnected, path |-> path,
   flFriendsReqs |-> flFriendsReqs, flSuggReqs |-> flSuggReqs,
   flAddReqs |-> flAddReqs, flRemoveReqs |-> flRemoveReqs,
   flConnReqs |-> flConnReqs, flPathReqs |-> flPathReqs,
   serverFriends |-> serverFriends, nfVariant |-> nfVariant,
   nfNotifications |-> nfNotifications, nfIsLoading |-> nfIsLoading,
   nfError |-> nfError, nfSock |-> nfSock, nfFetchReqs |-> nfFetchReqs,
   nfClearReqs |-> nfClearReqs, bio |-> bio, avatar |-> avatar,
   profIsLoading |-> profIsLoading, profError |-> profError,
   profSuccess |-> profSuccess, profReqs |-> profReqs,
   authUser |-> authUser, authToken |-> authToken, cpMounted |-> cpMounted,
   cpSocket |-> cpSocket, cpInitSock |-> cpInitSock,
   cpListenSock |-> cpListenSock, cpFriends |-> cpFriends,
   cpFriendRequests |-> cpFriendRequests, cpMessages |-> cpMessages,
   cpCurrentChat |-> cpCurrentChat, cpLoadingFriends |-> cpLoadingFriends,
   cpLoadingMessages |-> cpLoadingMessages, cpFriendsReqs |-> cpFriendsReqs,
   cpRequestsReqs |-> cpRequestsReqs, cpMsgReqs |-> cpMsgReqs,
   cpAcceptReqs |-> cpAcceptReqs, cpRejectReqs |-> cpRejectReqs,
   cpRemoveReqs |-> cpRemoveReqs, npNotifications |-> npNotifications,
   npLoading |-> npLoading, npLoadReqs |-> npLoadReqs,
   npClearReqs |-> npClearReqs, npReadReqs |-> npReadReqs,
   npReadAllReqs |-> npReadAllReqs, npDeleteReqs |-> npDeleteReqs,
   tree |-> tree, received |-> received, emitted |-> emitted,
   lastOp |-> lastOp, lastOutcome |-> lastOutcome, posts |-> posts,
   nEvents |-> nEvents, lastEvent |-> lastEvent, callResult |-> callResult,
   joined |-> joined, userDirty |-> FALSE, roomsDirty |-> FALSE,
   authDirty |-> FALSE]

\* the variables hold the record w
InitWith(w) ==
  /\ socket = w.socket
  /\ sockState = w.sockState
  /\ listeners = w.listeners
  /\ appMounted = w.appMounted
  /\ isAuthenticated = w.isAuthenticated
  /\ user = w.user
  /\ showLogin = w.showLogin
  /\ activeTab = w.activeTab
  /\ appNotifications = w.appNotifications
  /\ selectedFriend = w.selectedFriend
  /\ localStorage = w.localStorage
  /\ appSock = w.appSock
  /\ verifyReqs = w.verifyReqs
  /\ logoutReqs = w.logoutReqs
  /\ appNotifReqs = w.appNotifReqs
  /\ loginUsername = w.loginUsername
  /\ loginPassword = w.loginPassword
  /\ loginError = w.loginError
  /\ loginIsLoading = w.loginIsLoading
  /\ loginReqs = w.loginReqs
  /\ loginDeadReqs = w.loginDeadReqs
  /\ regUsername = w.regUsername
  /\ regPassword = w.regPassword
  /\ regConfirm = w.regConfirm
  /\ regError = w.regError
  /\ regIsLoading = w.regIsLoading
  /\ regReqs = w.regReqs
  /\ regDeadReqs = w.regDeadReqs
  /\ messages = w.messages
  /\ rooms = w.rooms
  /\ currentRoom = w.currentRoom
  /\ directChatMode = w.directChatMode
  /\ message = w.message
  /\ isTyping = w.isTyping
  /\ typingTimer = w.typingTimer
  /\ orphanTimers = w.orphanTimers
  /\ typingUsers = w.typingUsers
  /\ crSock = w.crSock
  /\ joinCleanup = w.joinCleanup
  /\ roomsReqs = w.roomsReqs
  /\ friends = w.friends
  /\ newFriend = w.newFriend
  /\ flError = w.flError
  /\ flSuccess = w.flSuccess
  /\ flIsLoading = w.flIsLoading
  /\ suggestions = w.suggestions
  /\ targetUser = w.targetUser
  /\ isConnected = w.isConnected
  /\ path = w.path
  /\ flFriendsReqs = w.flFriendsReqs
  /\ flSuggReqs = w.flSuggReqs
  /\ flAddReqs = w.flAddReqs
  /\ flRemoveReqs = w.flRemoveReqs
  /\ flConnReqs = w.flConnReqs
  /\ flPathReqs = w.flPathReqs
  /\ serverFriends = w.serverFriends
  /\ nfVariant = w.nfVariant
  /\ nfNotifications = w.nfNotifications
  /\ nfIsLoading = w.nfIsLoading
  /\ nfError = w.nfError
  /\ nfSock = w.nfSock
  /\ nfFetchReqs = w.nfFetchReqs
  /\ nfClearReqs = w.nfClearReqs
  /\ bio = w.bio
  /\ avatar = w.avatar
  /\ profIsLoading = w.profIsLoading
  /\ profError = w.profError
  /\ profSuccess = w.profSuccess
  /\ profReqs = w.profReqs
  /\ authUser = w.authUser
  /\ authToken = w.authToken
  /\ cpMounted = w.cpMounted
  /\ cpSocket = w.cpSocket
  /\ cpInitSock = w.cpInitSock
  /\ cpListenSock = w.cpListenSock
  /\ cpFriends = w.cpFriends
  /\ cpFriendRequests = w.cpFriendRequests
  /\ cpMessages = w.cpMessages
  /\ cpCurrentChat = w.cpCurrentChat
  /\ cpLoadingFriends = w.cpLoadingFriends
  /\ cpLoadingMessages = w.cpLoadingMessages
  /\ cpFriendsReqs = w.cpFriendsReqs
  /\ cpRequestsReqs = w.cpRequestsReqs
  /\ cpMsgReqs = w.cpMsgReqs
  /\ cpAcceptReqs = w.cpAcceptReqs
  /\ cpRejectReqs = w.cpRejectReqs
  /\ cpRemoveReqs = w.cpRemoveReqs
  /\ npNotifications = w.npNotifications
  /\ npLoading = w.npLoading
  /\ npLoadReqs = w.npLoadReqs
  /\ npClearReqs = w.npClearReqs
  /\ npReadReqs = w.npReadReqs
  /\ npReadAllReqs = w.npReadAllReqs
  /\ npDeleteReqs = w.npDeleteReqs
  /\ tree = w.tree
  /\ received = w.received
  /\ emitted = w.emitted
  /\ lastOp = w.lastOp
  /\ lastOutcome = w.lastOutcome
  /\ posts = w.posts
  /\ nEvents = w.nEvents
  /\ lastEvent = w.lastEvent
  /\ callResult = w.callResult
  /\ joined = w.joined

\* the next state is the record w
Becomes(w) ==
  /\ socket' = w.socket
  /\ sockState' = w.sockState
  /\ listeners' = w.listeners
  /\ appMounted' = w.appMounted
  /\ isAuthenticated' = w.isAuthenticated
  /\ user' = w.user
  /\ showLogin' = w.showLogin
  /\ activeTab' = w.activeTab
  /\ appNotifications' = w.appNotifications
  /\ selectedFriend' = w.selectedFriend
  /\ localStorage' = w.localStorage
  /\ appSock' = w.appSock
  /\ verifyReqs' = w.verifyReqs
  /\ logoutReqs' = w.logoutReqs
  /\ appNotifReqs' = w.appNotifReqs
  /\ loginUsername' = w.loginUsername
  /\ loginPassword' = w.loginPassword
  /\ loginError' = w.loginError
  /\ loginIsLoading' = w.loginIsLoading
  /\ loginReqs' = w.loginReqs
  /\ loginDeadReqs' = w.loginDeadReqs
  /\ regUsername' = w.regUsername
  /\ regPassword' = w.regPassword
  /\ regConfirm' = w.regConfirm
  /\ regError' = w.regError
  /\ regIsLoading' = w.regIsLoading
  /\ regReqs' = w.regReqs
  /\ regDeadReqs' = w.regDeadReqs
  /\ messages' = w.messages
  /\ rooms' = w.rooms
  /\ currentRoom' = w.currentRoom
  /\ directChatMode' = w.directChatMode
  /\ message' = w.message
  /\ isTyping' = w.isTyping
  /\ typingTimer' = w.typingTimer
  /\ orphanTimers' = w.orphanTimers
  /\ typingUsers' = w.typingUsers
  /\ crSock' = w.crSock
  /\ joinCleanup' = w.joinCleanup
  /\ roomsReqs' = w.roomsReqs
  /\ friends' = w.friends
  /\ newFriend' = w.newFriend
  /\ flError' = w.flError
  /\ flSuccess' = w.flSuccess
  /\ flIsLoading' = w.flIsLoading
  /\ suggestions' = w.suggestions
  /\ targetUser' = w.targetUser
  /\ isConnected' = w.isConnected
  /\ path' = w.path
  /\ flFriendsReqs' = w.flFriendsReqs
  /\ flSuggReqs' = w.flSuggReqs
  /\ flAddReqs' = w.flAddReqs
  /\ flRemoveReqs' = w.flRemoveReqs
  /\ flConnReqs' = w.flConnReqs
  /\ flPathReqs' = w.flPathReqs
  /\ serverFriends' = w.serverFriends
  /\ nfVariant' = w.nfVariant
  /\ nfNotifications' = w.nfNotifications
  /\ nfIsLoading' = w.nfIsLoading
  /\ nfError' = w.nfError
  /\ nfSock' = w.nfSock
  /\ nfFetchReqs' = w.nfFetchReqs
  /\ nfClearReqs' = w.nfClearReqs
  /\ bio' = w.bio
  /\ avatar' = w.avatar
  /\ profIsLoading' = w.profIsLoading
  /\ profError' = w.profError
  /\ profSuccess' = w.profSuccess
  /\ profReqs' = w.profReqs
  /\ authUser' = w.authUser
  /\ authToken' = w.authToken
  /\ cpMounted' = w.cpMounted
  /\ cpSocket' = w.cpSocket
  /\ cpInitSock' = w.cpInitSock
  /\ cpListenSock' = w.cpListenSock
  /\ cpFriends' = w.cpFriends
  /\ cpFriendRequests' = w.cpFriendRequests
  /\ cpMessages' = w.cpMessages
  /\ cpCurrentChat' = w.cpCurrentChat
  /\ cpLoadingFriends' = w.cpLoadingFriends
  /\ cpLoadingMessages' = w.cpLoadingMessages
  /\ cpFriendsReqs' = w.cpFriendsReqs
  /\ cpRequestsReqs' = w.cpRequestsReqs
  /\ cpMsgReqs' = w.cpMsgReqs
  /\ cpAcceptReqs' = w.cpAcceptReqs
  /\ cpRejectReqs' = w.cpRejectReqs
  /\ cpRemoveReqs' = w.cpRemoveReqs
  /\ npNotifications' = w.npNotifications
  /\ npLoading' = w.npLoading
  /\ npLoadReqs' = w.npLoadReqs
  /\ npClearReqs' = w.npClearReqs
  /\ npReadReqs' = w.npReadReqs
  /\ npReadAllReqs' = w.npReadAllReqs
  /\ npDeleteReqs' = w.npDeleteReqs
  /\ tree' = w.tree
  /\ received' = w.received
  /\ emitted' = w.emitted
  /\ lastOp' = w.lastOp
  /\ lastOutcome' = w.lastOutcome
  /\ posts' = w.posts
  /\ nEvents' = w.nEvents
  /\ lastEvent' = w.lastEvent
  /\ callResult' = w.callResult
  /\ joined' = w.joined

\* a step that would exceed a bound of the model is not taken
WithinBounds(w) ==
  /\ Len(w.sockState) <= MaxSockets
  /\ BagCardinality(w.roomsReqs) <= MaxRoomsInFlight
  /\ BagCardinality(w.profReqs) <= MaxInFlight
  /\ BagCardinality(w.flAddReqs) <= MaxInFlight
  /\ BagCardinality(w.flRemoveReqs) <= MaxInFlight
  /\ \A n \in {w.verifyReqs, w.logoutReqs, w.appNotifReqs, w.loginReqs,
               w.loginDeadReqs, w.regReqs, w.regDeadReqs, w.nfFetchReqs,
               w.nfClearReqs, w.flFriendsReqs, w.flSuggReqs, w.flConnReqs,
               w.flPathReqs, w.npLoadReqs, w.npClearReqs, w.cpFriendsReqs,
               w.cpRequestsReqs} : n <= MaxInFlight
  /\ BagCardinality(w.cpMsgReqs) <= MaxInFlight
  /\ BagCardinality(w.cpAcceptReqs) <= MaxInFlight
  /\ BagCardinality(w.cpRejectReqs) <= MaxInFlight
  /\ BagCardinality(w.cpRemoveReqs) <= MaxInFlight
  /\ BagCardinality(w.npReadReqs) <= MaxInFlight
  /\ BagCardinality(w.npDeleteReqs) <= MaxInFlight
  /\ w.npReadAllReqs <= MaxInFlight
  /\ Len(w.cpFriends) <= MaxFriends
  /\ Len(w.cpFriendRequests) <= MaxFriends
  /\ Len(w.appNotifications) <= MaxNotifs
  /\ Len(w.nfNotifications) <= MaxNotifs
  /\ Len(w.npNotifications) <= MaxNotifs
  /\ w.nEvents <= MaxEvents

Commit(w) == WithinBounds(w) /\ Becomes(w)

\* the state a step starts from: nothing emitted or posted yet, the step's
\* name noted
Begin(op) ==
  [World EXCEPT !.emitted = <<>>, !.posts = {}, !.lastOp = op,
                !.lastOutcome = "", !.lastEvent = None, !.callResult = ""]

(***************************************************************************)
(* socket.ts                                                               *)
(***************************************************************************)
\* connectSocket: a new instance unless the current one is connected
connectSocket(w) ==
  IF w.socket = 0 \/ w.sockState[w.socket] # "connected"
  THEN [w EXCEPT !.sockState = Append(@, "connecting"),
                 !.socket = Len(w.sockState) + 1]
  ELSE w

disconnectSocket(w) ==
  IF w.socket # 0
  THEN [w EXCEPT !.sockState[w.socket] = "closed", !.socket = 0]
  ELSE w

getSocket(w) == w.socket

\* socket.on(ev, handler) of a component, and socket.off(ev), which removes
\* every listener of the event on that instance
SocketOn(w, s, ev, owner) ==
  [w EXCEPT !.listeners = @ \cup {<<s, ev, owner>>}]

SocketOff(w, s, ev) ==
  [w EXCEPT !.listeners = {l \in @ : ~(l[1] = s /\ l[2] = ev)}]

\* an emitted event: its name and the fields of its payload
Ev(name, room, friend, typing, text) ==
  [sock |-> 0, ev |-> name, room |-> room, friend |-> friend,
   typing |-> typing, text |-> text]

SocketEmit(w, s, e) ==
  [w EXCEPT !.emitted = Append(@, [e EXCEPT !.sock = s])]

\* an effect, a cleanup or a listener that runs only when its condition holds
When(cond, F(_), w) == IF cond THEN F(w) ELSE w

\* the server can send on the instance
Connected(w, s) == s \in 1..Len(w.sockState) /\ w.sockState[s] = "connected"

\* owner has a listener for ev on the instance
Listening(w, s, ev, owner) == <<s, ev, owner>> \in w.listeners

(***************************************************************************)
(* Text: a string is a sequence of characters                              *)
(***************************************************************************)
RECURSIVE TrimStart(_)
TrimStart(s) ==
  IF s # <<>> /\ Head(s) = " " THEN TrimStart(Tail(s)) ELSE s

RECURSIVE TrimEnd(_)
TrimEnd(s) ==
  IF s # <<>> /\ s[Len(s)] = " "
  THEN TrimEnd(SubSeq(s, 1, Len(s) - 1))
  ELSE s

\* String.prototype.trim
Trim(s) == TrimEnd(TrimStart(s))

(***************************************************************************)
(* ChatRoom.tsx                                                            *)
(***************************************************************************)
ChatRoomEvents == {"message_history", "new_message", "typing_update"}

\* App.tsx:248-250: ChatRoom is rendered on the chat tab of a session
ChatRoomMounted(w) == w.isAuthenticated /\ w.activeTab = "chat"

\* App.tsx:249: the username prop, user?.username || ''
UsernameProp(w) == IF w.user = None THEN "" ELSE Get(w.user).username

\* two wrong readings of slice(-n): nothing is dropped, the first n are kept
SliceNothing(s, n) == s
SliceFirst(s, n) == IF Len(s) <= n THEN s ELSE SubSeq(s, 1, n)

\* Array.prototype.slice(-n)
SliceLast(s, n) == IF Len(s) <= n THEN s ELSE SubSeq(s, Len(s) - n + 1, Len(s))

\* ChatRoom.tsx:19-29: the state of a fresh instance
ChatRoomFresh(w) ==
  [w EXCEPT !.messages = <<>>, !.rooms = <<>>, !.currentRoom = "",
            !.directChatMode = FALSE, !.message = <<>>, !.isTyping = FALSE,
            !.typingTimer = None, !.typingUsers = <<>>, !.received = <<>>]

\* an instance goes away: its state with it, its requests answer to nobody,
\* its pending typing timeout is not cleared
ChatRoomGone(w) ==
  [ChatRoomFresh(w) EXCEPT
     !.roomsReqs = EmptyBag,
     !.orphanTimers = IF w.typingTimer = None THEN @
                      ELSE @ \cup {Get(w.typingTimer)}]

\* ChatRoom.tsx:31-73: the first effect: the rooms request, whose callback
\* keeps the selectedFriend and currentRoom of this render, and the listeners
ChatRoomListenEffect(w) ==
  LET w1 == [w EXCEPT !.roomsReqs = @ (+) SetToBag(
                 {[sf |-> w.selectedFriend, room |-> w.currentRoom]})]
      w2 == connectSocket(w1)
      s == w2.socket
  IN [SocketOn(SocketOn(SocketOn(w2, s, "message_history", "ChatRoom"),
                        s, "new_message", "ChatRoom"),
               s, "typing_update", "ChatRoom")
        EXCEPT !.crSock = s]

\* a cleanup that takes the listeners off the socket the module holds now
ChatRoomListenCleanupCurrent(w) ==
  IF getSocket(w) = 0 THEN [w EXCEPT !.crSock = 0]
  ELSE [SocketOff(SocketOff(SocketOff(w, getSocket(w), "message_history"),
                            getSocket(w), "new_message"),
                  getSocket(w), "typing_update")
          EXCEPT !.crSock = 0]

\* ChatRoom.tsx:74-78: its cleanup, on the instance the effect captured
ChatRoomListenCleanup(w) ==
  IF w.crSock = 0 THEN w
  ELSE [SocketOff(SocketOff(SocketOff(w, w.crSock, "message_history"),
                            w.crSock, "new_message"),
                  w.crSock, "typing_update")
          EXCEPT !.crSock = 0]

\* a cleanup of the join effect that tells the server nothing
ChatRoomJoinCleanupSilent(w) == [w EXCEPT !.joinCleanup = None]

\* ChatRoom.tsx:97-100: the cleanup of the join effect, with the
\* selectedFriend and currentRoom of the render that registered it
ChatRoomJoinCleanup(w) ==
  IF w.joinCleanup = None THEN w
  ELSE LET c == Get(w.joinCleanup)
           w1 == [w EXCEPT !.joinCleanup = None]
       IN IF Truthy(c.sf)
          THEN SocketEmit(w1, c.sock, Ev("leave", Undef, c.sf, FALSE, <<>>))
          ELSE IF Truthy(c.room)
          THEN SocketEmit(w1, c.sock, Ev("leave", c.room, Undef, FALSE, <<>>))
          ELSE w1

\* ChatRoom.tsx:81-96: the body of the join effect
ChatRoomJoinEffect(w) ==
  LET s == getSocket(w)
      reg(x) == [x EXCEPT !.joinCleanup =
                   Some([sock |-> s, sf |-> w.selectedFriend,
                         room |-> w.currentRoom])]
  IN IF s = 0 THEN w
     ELSE IF Truthy(w.selectedFriend)
     THEN reg(SocketEmit([w EXCEPT !.directChatMode = TRUE,
                                   !.currentRoom = ""],
                         s, Ev("join", Undef, w.selectedFriend, FALSE, <<>>)))
     ELSE IF Len(w.rooms) > 0 /\ ~Truthy(w.currentRoom) /\ ~w.directChatMode
     THEN reg(SocketEmit([w EXCEPT !.currentRoom = w.rooms[1],
                                   !.directChatMode = FALSE],
                         s, Ev("join", w.rooms[1], Undef, FALSE, <<>>)))
     ELSE IF Truthy(w.currentRoom)
     THEN reg(SocketEmit(w, s, Ev("join", w.currentRoom, Undef, FALSE, <<>>)))
     ELSE reg(w)

\* the join effect sets state it depends on: it runs again, cleanup first,
\* in every render that follows until currentRoom and directChatMode settle
RECURSIVE ChatRoomJoinRerun(_)
JoinSettles(w, w1) ==
  IF w1.currentRoom = w.currentRoom /\ w1.directChatMode = w.directChatMode
  THEN w1
  ELSE ChatRoomJoinRerun(w1)
ChatRoomJoinRerun(w) == JoinSettles(w, ChatRoomJoinEffect(ChatRoomJoinCleanup(w)))

\* ChatRoom.tsx:60-63: the message_history listener
OnMessageHistory(w, payload) ==
  [w EXCEPT !.messages = SliceLast(@ \o payload, MAX_MESSAGES),
            !.received = @ \o payload]

\* ChatRoom.tsx:64-67: the new_message listener
OnNewMessage(w, data) ==
  [w EXCEPT !.messages = SliceLast(Append(@, data), MAX_MESSAGES),
            !.received = Append(@, data)]

\* ChatRoom.tsx:68-72: the typing_update listener; typingUsers is kept as
\* the list of (username, typing) entries of the object, one per username
OnTypingUpdate(w, u, typing) ==
  IF u # UsernameProp(w)
  THEN [w EXCEPT !.typingUsers =
          IF \E i \in 1..Len(@) : @[i][1] = u
          THEN [i \in 1..Len(@) |-> IF @[i][1] = u THEN <<u, typing>> ELSE @[i]]
          ELSE Append(@, <<u, typing>>)]
  ELSE w

\* a typing event that always names the room, as before direct chats
TypingEventRoomOnly(direct, room, friend, typing) ==
  Ev("typing", room, Undef, typing, <<>>)

\* the destination a typing event names (ChatRoom.tsx:124-128, 139-143)
TypingEvent(direct, room, friend, typing) ==
  Ev("typing", IF direct THEN Undef ELSE room,
     IF direct THEN friend ELSE Undef, typing, <<>>)

\* ChatRoom.tsx:111-129
handleSendMessage(w) ==
  LET s == getSocket(w)
      w1 == IF w.directChatMode /\ Truthy(w.selectedFriend)
            THEN SocketEmit(w, s, Ev("message", Undef, w.selectedFriend,
                                     FALSE, w.message))
            ELSE IF Truthy(w.currentRoom)
            THEN SocketEmit(w, s, Ev("message", w.currentRoom, Undef,
                                     FALSE, w.message))
            ELSE w
  IN IF s = 0 \/ Trim(w.message) = <<>> THEN w
     ELSE SocketEmit([w1 EXCEPT !.message = <<>>, !.isTyping = FALSE,
                                !.typingTimer = None],
                     s, TypingEvent(w.directChatMode, w.currentRoom,
                                    w.selectedFriend, FALSE))

\* ChatRoom.tsx:131-157: the timeout keeps the isTyping, destination and
\* socket of the render the handler belongs to
handleInputChange(w, value) ==
  LET s == getSocket(w)
      w1 == [w EXCEPT !.message = value]
      w2 == IF ~w.isTyping /\ Trim(value) # <<>>
            THEN SocketEmit([w1 EXCEPT !.isTyping = TRUE], s,
                            TypingEvent(w.directChatMode, w.currentRoom,
                                        w.selectedFriend, TRUE))
            ELSE w1
  IN IF s = 0 THEN w
     ELSE [w2 EXCEPT !.typingTimer =
             Some([isTyping |-> w.isTyping, direct |-> w.directChatMode,
                   room |-> w.currentRoom, friend |-> w.selectedFriend,
                   sock |-> s])]

\* ChatRoom.tsx:147-156: the timeout fires; live tells whether the instance
\* that set it is still there to take the setIsTyping
TypingTimeoutFires(w, t, live) ==
  IF t.isTyping
  THEN SocketEmit(IF live THEN [w EXCEPT !.isTyping = FALSE] ELSE w,
                  t.sock, TypingEvent(t.direct, t.room, t.friend, FALSE))
  ELSE w

\* ChatRoom.tsx:38-46: the rooms request succeeds with a list of rooms
RoomsLoaded(w, req, list) ==
  LET w1 == [w EXCEPT !.rooms = list, !.roomsDirty = TRUE]
  IN IF Len(list) > 0
     THEN IF ~Truthy(req.sf) /\ ~Truthy(req.room)
          THEN [w1 EXCEPT !.currentRoom = list[1], !.directChatMode = FALSE]
          ELSE w1
     ELSE w

\* ChatRoom.tsx:194-197: a room tab is clicked
RoomTabClicked(w, room) ==
  [w EXCEPT !.currentRoom = room, !.directChatMode = FALSE]

(***************************************************************************)
(* The Notifications screen: nfVariant tells which of the two files it is, *)
(* the one with an error state (part_004) or the one without (part_000)    *)
(***************************************************************************)
NotificationsMounted(w) == w.isAuthenticated /\ w.activeTab = "notifications"

NotificationsFresh(w) ==
  [w EXCEPT !.nfNotifications = <<>>, !.nfIsLoading = FALSE, !.nfError = Nil]

NotificationsGone(w) ==
  [NotificationsFresh(w) EXCEPT !.nfFetchReqs = 0, !.nfClearReqs = 0]

\* part_004:27-30, part_000:28-32
fetchNotifications(w) ==
  [w EXCEPT !.nfIsLoading = TRUE,
            !.nfError = IF w.nfVariant = "part_004" THEN Nil ELSE @,
            !.nfFetchReqs = @ + 1]

\* part_004:14-21, part_000:13-21
NotificationsEffect(w) ==
  LET w1 == connectSocket(fetchNotifications(w))
  IN [SocketOn(w1, w1.socket, "new_notification", "Notifications")
        EXCEPT !.nfSock = w1.socket]

\* part_004:22-24, part_000:23-25
NotificationsCleanup(w) ==
  IF w.nfSock = 0 THEN w
  ELSE [SocketOff(w, w.nfSock, "new_notification") EXCEPT !.nfSock = 0]

\* part_004:18-20: the new_notification listener of the screen
NotificationsOnNew(w, note) ==
  [w EXCEPT !.nfNotifications = Append(@, note)]

\* part_004:49-55, part_000:50-54
clearNotifications(w) ==
  IF w.nfVariant = "part_004"
  THEN [w EXCEPT !.nfIsLoading = TRUE, !.nfError = Nil,
                 !.nfClearReqs = @ + 1]
  ELSE [w EXCEPT !.nfClearReqs = @ + 1]

\* the outcomes of a request: the response is ok and its body has success
\* true ("ok") or false with a message or without one ("refused",
\* "refusedBare"), the status is not a success ("status"), or the fetch
\* rejects ("reject")
Outcomes == {"ok", "refused", "refusedBare", "status", "reject"}
ServerMessage == "server says no"
Refusal(o, fallback) == IF o = "refused" THEN ServerMessage ELSE fallback

\* part_004:31-46, part_000:33-47: the fetch settles
NotificationsFetched(w, o, list) ==
  LET w1 == [w EXCEPT !.nfFetchReqs = @ - 1]
      w2 == IF o = "ok" THEN [w1 EXCEPT !.nfNotifications = list]
            ELSE IF w.nfVariant # "part_004" THEN w1
            ELSE IF o \in {"refused", "refusedBare"}
            THEN [w1 EXCEPT !.nfError =
                    Refusal(o, "Failed to load notifications")]
            ELSE [w1 EXCEPT !.nfError = NetworkError]
  IN [w2 EXCEPT !.nfIsLoading = FALSE]

\* a DELETE handler that leaves the list as it is
NotificationsClearedKeeps(w, o) ==
  [w EXCEPT !.nfClearReqs = @ - 1,
            !.nfIsLoading = IF w.nfVariant = "part_004" THEN FALSE ELSE @]

\* part_004:56-71, part_000:55-68: the DELETE settles
NotificationsCleared(w, o) ==
  LET w1 == [w EXCEPT !.nfClearReqs = @ - 1]
      w2 == IF o = "ok" THEN [w1 EXCEPT !.nfNotifications = <<>>]
            ELSE IF w.nfVariant # "part_004" THEN w1
            ELSE IF o \in {"refused", "refusedBare"}
            THEN [w1 EXCEPT !.nfError =
                    Refusal(o, "Failed to clear notifications")]
            ELSE [w1 EXCEPT !.nfError = NetworkError]
  IN IF w.nfVariant = "part_004" THEN [w2 EXCEPT !.nfIsLoading = FALSE]
     ELSE w2

(***************************************************************************)
(* Profile.tsx                                                             *)
(***************************************************************************)
ProfileMounted(w) == w.isAuthenticated /\ w.activeTab = "profile"

ProfileFresh(w) ==
  [w EXCEPT !.bio = "", !.avatar = "", !.profIsLoading = FALSE,
            !.profError = "", !.profSuccess = ""]

\* the instance goes away; its requests stay in flight and still reach App
ProfileGone(w) ==
  [ProfileFresh(w) EXCEPT !.profReqs =
     LET dead == {[r EXCEPT !.live = FALSE] : r \in BagToSet(w.profReqs)}
     IN [d \in dead |-> CopiesIn(d, w.profReqs)
                        + CopiesIn([d EXCEPT !.live = TRUE], w.profReqs)]]

\* Profile.tsx:23-28
ProfileSyncEffect(w) ==
  IF w.user # None
  THEN [w EXCEPT !.bio = Get(w.user).bio, !.avatar = Get(w.user).avatar]
  ELSE w

\* Profile.tsx:30-44: the request keeps the user, bio and avatar of the
\* render that submitted it
ProfileSubmit(w) ==
  [w EXCEPT !.profError = "", !.profSuccess = "", !.profIsLoading = TRUE,
            !.profReqs = @ (+) SetToBag({[usr |-> w.user, bio |-> w.bio,
                                          avatar |-> w.avatar,
                                          live |-> TRUE]})]

\* JSON.stringify of a user record and JSON.parse of a stored text
JSONstringify(u) == <<"{", u.username, u.bio, u.avatar, "}">>
Parseable(t) == Len(t) = 5 /\ t[1] = "{" /\ t[5] = "}"
JSONparse(t) == User(t[2], t[3], t[4])

\* Profile.tsx:46-67: the PUT settles
ProfileSettled(w, req, o) ==
  LET w0 == [w EXCEPT !.profReqs = @ (-) SetToBag({req})]
      local(x, err, succ) ==
        IF req.live
        THEN [x EXCEPT !.profError = IF err = Nil THEN @ ELSE err,
                       !.profSuccess = IF succ = Nil THEN @ ELSE succ,
                       !.profIsLoading = FALSE]
        ELSE x
      updatedUser == [Get(req.usr) EXCEPT !.bio = req.bio,
                                          !.avatar = req.avatar]
  IN IF o = "ok"
     THEN IF req.usr # None
          THEN local([w0 EXCEPT !.user = Some(updatedUser),
                                !.userDirty = TRUE,
                                !.localStorage = JSONstringify(updatedUser)],
                     Nil, "Profile updated successfully")
          ELSE local(w0, Nil, "Profile updated successfully")
     ELSE IF o \in {"refused", "refusedBare"}
     THEN local(w0, Refusal(o, "Failed to update profile"), Nil)
     ELSE local(w0, NetworkError, Nil)

(***************************************************************************)
(* Login.tsx                                                               *)
(***************************************************************************)
\* App.tsx:113-119: Login is rendered while nobody is authenticated
LoginMounted(w) == w.appMounted /\ ~w.isAuthenticated /\ w.showLogin

LoginFresh(w) ==
  [w EXCEPT !.loginUsername = <<>>, !.loginPassword = <<>>,
            !.loginError = Nil, !.loginIsLoading = FALSE]

\* the instance goes away; its request stays in flight and still calls
\* onLogin
LoginGone(w) ==
  [LoginFresh(w) EXCEPT !.loginReqs = 0,
                        !.loginDeadReqs = @ + w.loginReqs]

\* Login.tsx:79, 95: the onChange of the two inputs
LoginSetUsername(w, v) == [w EXCEPT !.loginUsername = Trim(v)]
LoginSetPassword(w, v) == [w EXCEPT !.loginPassword = v]

\* the check of Login.tsx:23 without its trim
LoginSubmitUntrimmed(w) ==
  IF w.loginUsername = <<>> \/ w.loginPassword = <<>>
  THEN [w EXCEPT !.loginError = "Username and password are required"]
  ELSE [w EXCEPT !.loginError = Nil, !.loginIsLoading = TRUE,
                 !.loginReqs = @ + 1]

\* Login.tsx:19-36
LoginSubmit(w) ==
  IF Trim(w.loginUsername) = <<>> \/ Trim(w.loginPassword) = <<>>
  THEN [w EXCEPT !.loginError = "Username and password are required"]
  ELSE [w EXCEPT !.loginError = Nil, !.loginIsLoading = TRUE,
                 !.loginReqs = @ + 1]

\* the outcomes of a login or registration request: as Outcomes, and a
\* failure status whose body has a message or has none, and a rejection
\* whose error has a message or has none
FormOutcomes ==
  {"ok", "refused", "refusedBare", "status", "statusBare", "reject",
   "rejectBare"}
FetchFailure == "Failed to fetch"

\* Login.tsx:38-53, Register.tsx:49-65: the text the form shows for a
\* request that did not succeed
FormError(o, fallback) ==
  CASE o \in {"refused", "status"} -> ServerMessage
    [] o \in {"refusedBare", "statusBare"} -> fallback
    [] o = "reject" -> FetchFailure
    [] OTHER -> NetworkError

\* a login that forgets the copy in local storage
handleLoginUnsaved(w, userData) ==
  connectSocket([w EXCEPT !.user = Some(userData), !.userDirty = TRUE,
                          !.isAuthenticated = TRUE])

\* App.tsx:68-73
handleLogin(w, userData) ==
  connectSocket([w EXCEPT !.user = Some(userData), !.userDirty = TRUE,
                          !.isAuthenticated = TRUE,
                          !.localStorage = JSONstringify(userData)])

\* Login.tsx:38-57: the request settles; live tells whether the instance
\* that sent it is still rendered
LoginSettled(w, live, o, userData) ==
  LET w0 == IF live THEN [w EXCEPT !.loginReqs = @ - 1]
            ELSE [w EXCEPT !.loginDeadReqs = @ - 1]
      w1 == IF o = "ok" THEN handleLogin(w0, userData) ELSE w0
  IN IF ~live THEN w1
     ELSE IF o = "ok"
     THEN [w1 EXCEPT !.loginUsername = <<>>, !.loginPassword = <<>>,
                     !.loginError = Nil, !.loginIsLoading = FALSE]
     ELSE [w1 EXCEPT !.loginError = FormError(o, "Login failed"),
                     !.loginIsLoading = FALSE]

(***************************************************************************)
(* Register.tsx                                                            *)
(***************************************************************************)
\* App.tsx:130-132
RegisterMounted(w) == w.appMounted /\ ~w.isAuthenticated /\ ~w.showLogin

RegisterFresh(w) ==
  [w EXCEPT !.regUsername = <<>>, !.regPassword = <<>>, !.regConfirm = <<>>,
            !.regError = Nil, !.regIsLoading = FALSE]

RegisterGone(w) ==
  [RegisterFresh(w) EXCEPT !.regReqs = 0, !.regDeadReqs = @ + w.regReqs]

\* Register.tsx:91, 107, 123
RegisterSetUsername(w, v) == [w EXCEPT !.regUsername = Trim(v)]
RegisterSetPassword(w, v) == [w EXCEPT !.regPassword = v]
RegisterSetConfirm(w, v) == [w EXCEPT !.regConfirm = v]

\* Register.tsx:29, 34
MinUsername == 3
MinPassword == 6

\* a submit that checks the fields and the confirmation but no length
RegisterSubmitAnyLength(w) ==
  IF Trim(w.regUsername) = <<>> \/ Trim(w.regPassword) = <<>>
     \/ Trim(w.regConfirm) = <<>>
  THEN [w EXCEPT !.regError = "All fields are required"]
  ELSE IF w.regPassword # w.regConfirm
  THEN [w EXCEPT !.regError = "Passwords do not match"]
  ELSE [w EXCEPT !.regError = Nil, !.regIsLoading = TRUE, !.regReqs = @ + 1]

\* Register.tsx:14-47
RegisterSubmit(w) ==
  IF Trim(w.regUsername) = <<>> \/ Trim(w.regPassword) = <<>>
     \/ Trim(w.regConfirm) = <<>>
  THEN [w EXCEPT !.regError = "All fields are required"]
  ELSE IF w.regPassword # w.regConfirm
  THEN [w EXCEPT !.regError = "Passwords do not match"]
  ELSE IF Len(w.regUsername) < MinUsername
  THEN [w EXCEPT !.regError = "Username must be at least 3 characters"]
  ELSE IF Len(w.regPassword) < MinPassword
  THEN [w EXCEPT !.regError = "Password must be at least 6 characters"]
  ELSE [w EXCEPT !.regError = Nil, !.regIsLoading = TRUE, !.regReqs = @ + 1]

\* App.tsx:99
handleRegister(w) == [w EXCEPT !.showLogin = TRUE]

\* Register.tsx:49-69
RegisterSettled(w, live, o) ==
  LET w0 == IF live THEN [w EXCEPT !.regReqs = @ - 1]
            ELSE [w EXCEPT !.regDeadReqs = @ - 1]
      w1 == IF o = "ok" THEN handleRegister(w0) ELSE w0
  IN IF ~live THEN w1
     ELSE IF o = "ok"
     THEN [w1 EXCEPT !.regUsername = <<>>, !.regPassword = <<>>,
                     !.regConfirm = <<>>, !.regError = Nil,
                     !.regIsLoading = FALSE]
     ELSE [w1 EXCEPT !.regError = FormError(o, "Registration failed"),
                     !.regIsLoading = FALSE]

(***************************************************************************)
(* FriendsList.tsx                                                         *)
(***************************************************************************)
\* the usernames the server knows, and what can be typed into the add and
\* the connection fields, with the characters of each text
KnownUsers == {Me} \cup Friends
TypedNames == {"", " ", "bob"}
Chars(t) ==
  CASE t = "" -> <<>>
    [] t = " " -> <<" ">>
    [] t = " bob" -> <<" ", "b", "o", "b">>
    [] t = "bob" -> <<"b", "o", "b">>
    [] t = "carol" -> <<"c", "a", "r", "o", "l">>
    [] t = "alice" -> <<"a", "l", "i", "c", "e">>
IsBlank(t) == Trim(Chars(t)) = <<>>

\* the order in which the server lists a set of usernames
Listed(S) == SelectSeq(<<"alice", "bob", "carol">>, LAMBDA n : n \in S)

Elems(q) == {q[i] : i \in 1..Len(q)}
Filter(q, name) == SelectSeq(q, LAMBDA f : f # name)

\* App.tsx:233-257: FriendsList is rendered as the sidebar of the chat tab
\* and as the friends tab, two different instances
FriendsListMounted(w) ==
  w.isAuthenticated /\ w.activeTab \in {"chat", "friends"}

FriendsListFresh(w) ==
  [w EXCEPT !.friends = <<>>, !.newFriend = "", !.flError = "",
            !.flSuccess = <<>>, !.flIsLoading = FALSE, !.suggestions = <<>>,
            !.targetUser = "", !.isConnected = Nil, !.path = <<>>]

\* the instance goes away, and nothing its requests do on settling shows
FriendsListGone(w) ==
  [FriendsListFresh(w) EXCEPT !.flFriendsReqs = 0, !.flSuggReqs = 0,
                              !.flAddReqs = EmptyBag,
                              !.flRemoveReqs = EmptyBag,
                              !.flConnReqs = 0, !.flPathReqs = 0]

\* FriendsList.tsx:37-39
fetchFriends(w) ==
  [w EXCEPT !.flIsLoading = TRUE, !.flFriendsReqs = @ + 1]

\* FriendsList.tsx:55-56
fetchSuggestions(w) == [w EXCEPT !.flSuggReqs = @ + 1]

\* FriendsList.tsx:32-35
FriendsListEffect(w) == fetchSuggestions(fetchFriends(w))

\* FriendsList.tsx:40-52: the GET of the friends settles
FriendsFetched(w, o, list) ==
  LET w1 == [w EXCEPT !.flFriendsReqs = @ - 1]
      w2 == IF o = "ok" THEN [w1 EXCEPT !.friends = list]
            ELSE IF o \in {"refused", "refusedBare"}
            THEN [w1 EXCEPT !.flError =
                    Refusal(o, "Failed to load friends")]
            ELSE [w1 EXCEPT !.flError = NetworkError]
  IN [w2 EXCEPT !.flIsLoading = FALSE]

\* FriendsList.tsx:57-64
SuggestionsFetched(w, o, list) ==
  LET w1 == [w EXCEPT !.flSuggReqs = @ - 1]
  IN IF o = "ok" THEN [w1 EXCEPT !.suggestions = list] ELSE w1

\* the POST /api/friends of FriendsList.tsx:88-93 and 117-122, noted with
\* whether the username was in the friends list when the user acted
PostFriend(w, name, via) ==
  [w EXCEPT !.flIsLoading = TRUE,
            !.flAddReqs = @ (+) SetToBag({[name |-> name, via |-> via]}),
            !.posts = @ \cup {[name |-> name, via |-> via,
                               listed |-> name \in Elems(w.friends)]}]

\* FriendsList.tsx:67-93
handleAddFriend(w) ==
  LET w1 == [w EXCEPT !.flError = "", !.flSuccess = <<>>]
  IN IF IsBlank(w.newFriend)
     THEN [w1 EXCEPT !.flError = "Please enter a username"]
     ELSE IF w.newFriend = UsernameProp(w)
     THEN [w1 EXCEPT !.flError = "You can't add yourself as a friend"]
     ELSE IF \E i \in 1..Len(w.friends) : w.friends[i] = w.newFriend
     THEN [w1 EXCEPT !.flError = "This user is already your friend"]
     ELSE PostFriend(w1, w.newFriend, "typed")

\* FriendsList.tsx:115-122
handleAddSuggestedFriend(w, friendUsername) ==
  PostFriend(w, friendUsername, "suggested")

\* FriendsList.tsx:94-112, 123-140: the POST settles
AddSettled(w, req, o) ==
  LET w1 == [w EXCEPT !.flAddReqs = @ (-) SetToBag({req})]
      w2 == IF o = "ok"
            THEN fetchSuggestions(fetchFriends(
                   [w1 EXCEPT !.flSuccess = <<req.name, " added as a friend">>,
                              !.newFriend = IF req.via = "typed" THEN ""
                                            ELSE @,
                              !.serverFriends = @ \cup {req.name}]))
            ELSE IF o \in {"refused", "refusedBare"}
            THEN [w1 EXCEPT !.flError =
                    Refusal(o, "Failed to add friend")]
            ELSE [w1 EXCEPT !.flError = NetworkError]
  IN [w2 EXCEPT !.flIsLoading = FALSE]

\* FriendsList.tsx:143-151: the removal, confirmed; its callback keeps the
\* friends and newFriend of the render the button belongs to
handleRemoveFriend(w, friendUsername) ==
  [w EXCEPT !.flIsLoading = TRUE,
            !.flRemoveReqs = @ (+) SetToBag({[name |-> friendUsername,
                                              friends |-> w.friends,
                                              newFriend |-> w.newFriend]})]

\* App.tsx:108-111
handleFriendSelect(w, friendUsername) ==
  [w EXCEPT !.selectedFriend = friendUsername, !.activeTab = "chat"]

\* FriendsList.tsx:152-172: the DELETE settles
RemoveSettled(w, req, o) ==
  LET w1 == [w EXCEPT !.flRemoveReqs = @ (-) SetToBag({req})]
      w2 == IF o = "ok"
            THEN LET w3 == fetchSuggestions(
                     [w1 EXCEPT !.friends = Filter(req.friends, req.name),
                                !.flSuccess =
                                  <<req.name, " removed from friends">>,
                                !.serverFriends = @ \ {req.name}])
                 IN IF req.name = req.newFriend
                    THEN handleFriendSelect(w3, "")
                    ELSE w3
            ELSE IF o \in {"refused", "refusedBare"}
            THEN [w1 EXCEPT !.flError =
                    Refusal(o, "Failed to remove friend")]
            ELSE [w1 EXCEPT !.flError = NetworkError]
  IN [w2 EXCEPT !.flIsLoading = FALSE]

\* FriendsList.tsx:180-200
handleCheckConnection(w) ==
  IF IsBlank(w.targetUser)
  THEN [w EXCEPT !.flError = "Please enter a username to check"]
  ELSE [w EXCEPT !.isConnected = Nil, !.path = <<>>,
                 !.flConnReqs = @ + 1, !.flPathReqs = @ + 1]

\* a handler of the connected query that only logs a failure
ConnectionSettledSilent(w, o, connected) ==
  IF o = "ok"
  THEN [w EXCEPT !.flConnReqs = @ - 1, !.isConnected = connected]
  ELSE [w EXCEPT !.flConnReqs = @ - 1]

\* FriendsList.tsx:188-198
ConnectionSettled(w, o, connected) ==
  LET w1 == [w EXCEPT !.flConnReqs = @ - 1]
  IN IF o = "ok" THEN [w1 EXCEPT !.isConnected = connected]
     ELSE IF o \in {"refused", "refusedBare"} THEN w1
     ELSE [w1 EXCEPT !.flError = NetworkError]

\* FriendsList.tsx:201-208
PathSettled(w, o, p) ==
  LET w1 == [w EXCEPT !.flPathReqs = @ - 1]
  IN IF o = "ok" THEN [w1 EXCEPT !.path = p] ELSE w1

(***************************************************************************)
(* App.tsx                                                                 *)
(***************************************************************************)
\* App.tsx:53-63: the notifications effect of App
AppNotificationsEffect(w) ==
  IF w.isAuthenticated /\ w.user # None
  THEN LET w1 == connectSocket([w EXCEPT !.appNotifReqs = @ + 1])
       IN [SocketOn(w1, w1.socket, "new_notification", "App")
             EXCEPT !.appSock = w1.socket]
  ELSE w

\* App.tsx:64
AppNotificationsCleanup(w) ==
  IF w.appSock = 0 THEN w
  ELSE [SocketOff(w, w.appSock, "new_notification") EXCEPT !.appSock = 0]

\* App.tsx:61-63: the new_notification listener of App
AppOnNewNotification(w, note) ==
  [w EXCEPT !.appNotifications = Append(@, note)]

\* the dependencies of the effects, between the render before the handler
\* (old) and the render after it (w)
ListenDeps(old, w) ==
  UsernameProp(old) # UsernameProp(w) \/ old.selectedFriend # w.selectedFriend
JoinDeps(old, w) ==
  \/ ListenDeps(old, w)
  \/ old.currentRoom # w.currentRoom
  \/ w.roomsDirty
  \/ old.directChatMode # w.directChatMode
UserDeps(old, w) == UsernameProp(old) # UsernameProp(w)
SameFriendsList(old, w) ==
  FriendsListMounted(old) /\ FriendsListMounted(w)
    /\ old.activeTab = w.activeTab
AppDeps(old, w) == old.isAuthenticated # w.isAuthenticated \/ w.userDirty

\* the cleanups of the effects that go away or whose dependencies changed,
\* children before App
RenderCleanups(old, w) ==
  When(AppDeps(old, w), AppNotificationsCleanup,
  When(RegisterMounted(old) /\ ~RegisterMounted(w), RegisterGone,
  When(LoginMounted(old) /\ ~LoginMounted(w), LoginGone,
  When(FriendsListMounted(old) /\ ~SameFriendsList(old, w), FriendsListGone,
  When(ProfileMounted(old) /\ ~ProfileMounted(w), ProfileGone,
  When(NotificationsMounted(old) /\ ~NotificationsMounted(w),
       NotificationsGone,
  When(NotificationsMounted(old)
         /\ (~NotificationsMounted(w) \/ UserDeps(old, w)),
       NotificationsCleanup,
  When(ChatRoomMounted(old) /\ ~ChatRoomMounted(w), ChatRoomGone,
  When(ChatRoomMounted(old) /\ (~ChatRoomMounted(w) \/ JoinDeps(old, w)),
       ChatRoomJoinCleanup,
  When(ChatRoomMounted(old) /\ (~ChatRoomMounted(w) \/ ListenDeps(old, w)),
       ChatRoomListenCleanup, w))))))))))

\* the effects of what is rendered now, up to the first effect of ChatRoom;
\* c is the state the cleanups left
RenderListen(old, w, c) ==
  When(ChatRoomMounted(w) /\ (~ChatRoomMounted(old) \/ ListenDeps(old, w)),
       ChatRoomListenEffect,
  When(ChatRoomMounted(w) /\ ~ChatRoomMounted(old), ChatRoomFresh,
  When(FriendsListMounted(w)
         /\ (~SameFriendsList(old, w) \/ UserDeps(old, w)),
       FriendsListEffect, c)))

\* the join effect of ChatRoom
RenderJoin(old, w, m) ==
  When(ChatRoomMounted(w) /\ (~ChatRoomMounted(old) \/ JoinDeps(old, w)),
       ChatRoomJoinEffect, m)

\* the effects after it, the one of App last
RenderRest(old, w, m) ==
  When(AppDeps(old, w), AppNotificationsEffect,
  When(ProfileMounted(w) /\ (~ProfileMounted(old) \/ w.userDirty),
       ProfileSyncEffect,
  When(ProfileMounted(w) /\ ~ProfileMounted(old), ProfileFresh,
  When(NotificationsMounted(w)
         /\ (~NotificationsMounted(old) \/ UserDeps(old, w)),
       NotificationsEffect,
  When(NotificationsMounted(w) /\ ~NotificationsMounted(old),
       NotificationsFresh, m)))))

\* the render the join effect causes when it set currentRoom or
\* directChatMode: before is the state it ran in, after the state it left
RenderAgain(before, after, m) ==
  IF after.currentRoom # before.currentRoom
       \/ after.directChatMode # before.directChatMode
  THEN ChatRoomJoinRerun(m)
  ELSE m

RenderEffects(old, w, m2, m3) == RenderAgain(m2, m3, RenderRest(old, w, m3))
RenderSetups(old, w, m2) == RenderEffects(old, w, m2, RenderJoin(old, w, m2))

\* What React does after a handler changed the state from old to w: the
\* cleanups, then the effects, and the renders the effects themselves cause.
Render(old, w) ==
  [RenderSetups(old, w, RenderListen(old, w, RenderCleanups(old, w)))
     EXCEPT !.userDirty = FALSE, !.roomsDirty = FALSE]

\* App.tsx:75-76
handleLogout(w) == [w EXCEPT !.logoutReqs = @ + 1]

\* a logout that clears the session only when the server confirms it
LogoutSettledOnSuccess(w, o) ==
  LET w1 == [w EXCEPT !.logoutReqs = @ - 1]
  IN IF o = "ok"
     THEN disconnectSocket(
            [w1 EXCEPT !.user = None, !.userDirty = (w.user # None),
                       !.isAuthenticated = FALSE,
                       !.appNotifications = <<>>, !.selectedFriend = Nil,
                       !.activeTab = "chat", !.localStorage = <<>>])
     ELSE w1

\* App.tsx:77-96: the logout request settles: success in the body, no
\* success in the body, or a rejection
LogoutSettled(w, o) ==
  LET w1 == [w EXCEPT !.logoutReqs = @ - 1]
  IN IF o = "ok"
     THEN disconnectSocket(
            [w1 EXCEPT !.user = None, !.userDirty = (w.user # None),
                       !.isAuthenticated = FALSE,
                       !.appNotifications = <<>>, !.selectedFriend = Nil,
                       !.activeTab = "chat", !.localStorage = <<>>])
     ELSE IF o \in {"refused", "refusedBare"} THEN w1
     ELSE disconnectSocket(
            [w1 EXCEPT !.user = None, !.userDirty = (w.user # None),
                       !.isAuthenticated = FALSE, !.localStorage = <<>>])

\* App.tsx:25-49: the effect of the mount, with what local storage holds
AppMountEffect(w) ==
  LET storedUser == w.localStorage
  IN IF storedUser # <<>>
     THEN IF Parseable(storedUser)
          THEN connectSocket(
                 [w EXCEPT !.user = Some(JSONparse(storedUser)),
                           !.userDirty = TRUE, !.isAuthenticated = TRUE,
                           !.verifyReqs = @ + 1])
          ELSE [w EXCEPT !.localStorage = <<>>]
     ELSE w

\* App.tsx:35-44: the session verification settles
VerifySettled(w, o, userData) ==
  LET w1 == [w EXCEPT !.verifyReqs = @ - 1]
  IN IF o = "ok"
     THEN [w1 EXCEPT !.user = Some(userData), !.userDirty = TRUE,
                     !.localStorage = JSONstringify(userData)]
     ELSE handleLogout(w1)

\* App.tsx:56-58: the notifications request of App settles
AppNotificationsFetched(w, o, list) ==
  LET w1 == [w EXCEPT !.appNotifReqs = @ - 1]
  IN IF o = "ok" THEN [w1 EXCEPT !.appNotifications = list] ELSE w1

\* App.tsx:179-215: a tab of the navigation is clicked
SetActiveTab(w, t) == [w EXCEPT !.activeTab = t]

\* App.tsx:123, 136
SetShowLogin(w, b) == [w EXCEPT !.showLogin = b]

(***************************************************************************)
(* The second client tree: AuthProvider, ChatProvider and                  *)
(* NotificationProvider                                                    *)
(***************************************************************************)
UserIds == {"u1", "u2", "u3"}
ChatProviderEvents == {"message", "friend_request", "friend_status"}

\* part_007:416-418: a login or registration succeeded
AuthLoggedIn(w, id) ==
  [w EXCEPT !.authToken = TRUE, !.authUser = Some(id), !.authDirty = TRUE]

\* part_007:440-444
AuthLogout(w) ==
  [w EXCEPT !.authToken = FALSE, !.authUser = None,
            !.authDirty = (w.authUser # None)]

\* ChatContext.tsx:59-66: io() makes a new instance, kept with setSocket
ChatProviderInitEffect(w) ==
  IF w.authUser # None
  THEN [w EXCEPT !.sockState = Append(@, "connecting"),
                 !.cpSocket = Len(w.sockState) + 1,
                 !.cpInitSock = Len(w.sockState) + 1]
  ELSE w

\* ChatContext.tsx:67-69
ChatProviderInitCleanup(w) ==
  IF w.cpInitSock = 0 THEN w
  ELSE [w EXCEPT !.sockState[w.cpInitSock] = "closed", !.cpInitSock = 0]

\* ChatContext.tsx:74-97: the listeners, on the socket of this render
ChatProviderListenEffect(w, s) ==
  IF s = 0 THEN w
  ELSE [SocketOn(SocketOn(SocketOn(w, s, "message", "ChatProvider"),
                          s, "friend_request", "ChatProvider"),
                 s, "friend_status", "ChatProvider")
          EXCEPT !.cpListenSock = s]

\* ChatContext.tsx:99-103
ChatProviderListenCleanup(w) ==
  IF w.cpListenSock = 0 THEN w
  ELSE [SocketOff(SocketOff(SocketOff(w, w.cpListenSock, "message"),
                            w.cpListenSock, "friend_request"),
                  w.cpListenSock, "friend_status")
          EXCEPT !.cpListenSock = 0]

\* a listener that files every message under its sender
ChatProviderOnMessageBySender(w, msg) ==
  [w EXCEPT !.cpMessages[msg.senderId] = Append(@, msg)]

\* ChatContext.tsx:77-85: the message listener; msg has senderId and
\* receiverId, me is user?.id of the render that registered the listener
ChatProviderOnMessage(w, msg) ==
  LET me == IF w.authUser = None THEN Undef ELSE Get(w.authUser)
      chatId == IF msg.senderId = me THEN msg.receiverId ELSE msg.senderId
  IN [w EXCEPT !.cpMessages[chatId] = Append(@, msg)]

\* ChatContext.tsx:87-89
ChatProviderOnFriendRequest(w, request) ==
  [w EXCEPT !.cpFriendRequests = Append(@, request)]

\* a listener that gives the status to every friend of the list
ChatProviderOnFriendStatusAll(w, userId, status) ==
  [w EXCEPT !.cpFriends =
     [i \in 1..Len(@) |-> [@[i] EXCEPT !.status = status]]]

\* ChatContext.tsx:91-97
ChatProviderOnFriendStatus(w, userId, status) ==
  [w EXCEPT !.cpFriends =
     [i \in 1..Len(@) |-> IF @[i].id = userId
                          THEN [@[i] EXCEPT !.status = status]
                          ELSE @[i]]]

\* ChatContext.tsx:6-11: a friend; the username stands for the fields the
\* events never touch
Friend(id, status) == [id |-> id, username |-> <<"name", id>>,
                       status |-> status]

\* Array.prototype.filter(x => x.id !== userId)
WithoutId(q, userId) == SelectSeq(q, LAMBDA x : x.id # userId)

\* ChatContext.tsx:121-129: loadFriends
loadFriends(w) ==
  IF w.authUser = None THEN w
  ELSE [w EXCEPT !.cpLoadingFriends = TRUE, !.cpFriendsReqs = @ + 1]

\* ChatContext.tsx:130-135: it settles; axios rejects on a failure status
FriendsLoaded(w, o, list) ==
  LET w1 == [w EXCEPT !.cpFriendsReqs = @ - 1, !.cpLoadingFriends = FALSE]
  IN IF o = "ok" THEN [w1 EXCEPT !.cpFriends = list] ELSE w1

\* ChatContext.tsx:138-145: loadFriendRequests
loadFriendRequests(w) ==
  IF w.authUser = None THEN w ELSE [w EXCEPT !.cpRequestsReqs = @ + 1]

\* ChatContext.tsx:146-149
FriendRequestsLoaded(w, o, list) ==
  LET w1 == [w EXCEPT !.cpRequestsReqs = @ - 1]
  IN IF o = "ok" THEN [w1 EXCEPT !.cpFriendRequests = list] ELSE w1

\* ChatContext.tsx:107-112: the effect that loads both when the user changes
ChatProviderLoadEffect(w) ==
  IF w.authUser # None THEN loadFriendRequests(loadFriends(w)) ELSE w

\* ChatContext.tsx:152-160: loadMessages
loadMessages(w, friendId) ==
  IF w.authUser = None THEN w
  ELSE [w EXCEPT !.cpLoadingMessages = TRUE,
                 !.cpMsgReqs = @ (+) SetToBag({friendId})]

\* ChatContext.tsx:162-170: the conversation is replaced by what was loaded
MessagesLoaded(w, friendId, o, list) ==
  LET w1 == [w EXCEPT !.cpMsgReqs = @ (-) SetToBag({friendId}),
                      !.cpLoadingMessages = FALSE]
  IN IF o = "ok" THEN [w1 EXCEPT !.cpMessages[friendId] = list] ELSE w1

\* ChatContext.tsx:115-119: the effect of a new currentChat
ChatProviderMessagesEffect(w) ==
  IF w.cpCurrentChat # None
  THEN loadMessages(w, Get(w.cpCurrentChat).id)
  ELSE w

\* ChatContext.tsx:54, 331: setCurrentChat, and the effect that follows it
SetCurrentChat(w, chat) ==
  IF chat = w.cpCurrentChat THEN w
  ELSE ChatProviderMessagesEffect([w EXCEPT !.cpCurrentChat = chat])

\* ChatContext.tsx:251-258: acceptFriendRequest sends its POST
acceptFriendRequest(w, userId) ==
  IF w.authUser = None THEN [w EXCEPT !.callResult = "resolved"]
  ELSE [w EXCEPT !.cpAcceptReqs = @ (+) SetToBag({userId})]

\* a settling that takes only the first request of the user off the list
AcceptSettledFirstOnly(w, userId, o, friend) ==
  LET w1 == [w EXCEPT !.cpAcceptReqs = @ (-) SetToBag({userId})]
      first == IF \E i \in 1..Len(w.cpFriendRequests) :
                    w.cpFriendRequests[i].id = userId
               THEN CHOOSE i \in 1..Len(w.cpFriendRequests) :
                      /\ w.cpFriendRequests[i].id = userId
                      /\ \A j \in 1..(i - 1) :
                           w.cpFriendRequests[j].id # userId
               ELSE 0
  IN IF o = "ok"
     THEN [w1 EXCEPT !.cpFriendRequests =
                       IF first = 0 THEN @
                       ELSE SubSeq(@, 1, first - 1)
                              \o SubSeq(@, first + 1, Len(@)),
                     !.cpFriends = Append(@, friend),
                     !.callResult = "resolved"]
     ELSE [w1 EXCEPT !.callResult = "rejected"]

\* ChatContext.tsx:259-266: the POST settles; friend is response.data
AcceptSettled(w, userId, o, friend) ==
  LET w1 == [w EXCEPT !.cpAcceptReqs = @ (-) SetToBag({userId})]
  IN IF o = "ok"
     THEN [w1 EXCEPT !.cpFriendRequests = WithoutId(@, userId),
                     !.cpFriends = Append(@, friend),
                     !.callResult = "resolved"]
     ELSE [w1 EXCEPT !.callResult = "rejected"]

\* ChatContext.tsx:269-276: rejectFriendRequest sends its POST
rejectFriendRequest(w, userId) ==
  IF w.authUser = None THEN [w EXCEPT !.callResult = "resolved"]
  ELSE [w EXCEPT !.cpRejectReqs = @ (+) SetToBag({userId})]

\* ChatContext.tsx:278-283
RejectSettled(w, userId, o) ==
  LET w1 == [w EXCEPT !.cpRejectReqs = @ (-) SetToBag({userId})]
  IN IF o = "ok"
     THEN [w1 EXCEPT !.cpFriendRequests = WithoutId(@, userId),
                     !.callResult = "resolved"]
     ELSE [w1 EXCEPT !.callResult = "rejected"]

\* ChatContext.tsx:286-293: removeFriend sends its DELETE; what runs when
\* it settles keeps the currentChat of the render that made the call
removeFriend(w, userId) ==
  IF w.authUser = None THEN [w EXCEPT !.callResult = "resolved"]
  ELSE [w EXCEPT !.cpRemoveReqs =
          @ (+) SetToBag({[id |-> userId, chat |-> w.cpCurrentChat]})]

\* ChatContext.tsx:295-305
RemoveFriendSettled(w, req, o) ==
  LET w1 == [w EXCEPT !.cpRemoveReqs = @ (-) SetToBag({req})]
      w2 == [w1 EXCEPT !.cpFriends = WithoutId(@, req.id),
                       !.callResult = "resolved"]
  IN IF o = "ok"
     THEN IF req.chat # None /\ Get(req.chat).id = req.id
          THEN SetCurrentChat(w2, None)
          ELSE w2
     ELSE [w1 EXCEPT !.callResult = "rejected"]

\* part_007:526-542: loadNotifications
loadNotifications(w) ==
  IF w.authUser = None THEN w
  ELSE IF ~w.authToken THEN [w EXCEPT !.npLoading = FALSE]
  ELSE [w EXCEPT !.npLoading = TRUE, !.npLoadReqs = @ + 1]

\* part_007:542-547: it settles; axios rejects on a failure status
NotificationsLoaded(w, o, list) ==
  LET w1 == [w EXCEPT !.npLoadReqs = @ - 1, !.npLoading = FALSE]
  IN IF o = "ok" THEN [w1 EXCEPT !.npNotifications = list] ELSE w1

\* part_007:512: notifications.filter(n => !n.read).length
Unread(n) == ~n.read
unreadCount(w) == Len(SelectSeq(w.npNotifications, Unread))

\* part_007:550-564: markAsRead returns at once without a user, throws
\* without a token, and otherwise sends the PUT for the id
markAsRead(w, notificationId) ==
  IF w.authUser = None THEN [w EXCEPT !.callResult = "resolved"]
  ELSE IF ~w.authToken THEN [w EXCEPT !.callResult = "rejected"]
  ELSE [w EXCEPT !.npReadReqs = @ (+) SetToBag({notificationId})]

\* a map that forgets the comparison of the ids
MarkReadEvery(prev, notificationId) ==
  [i \in DOMAIN prev |-> [prev[i] EXCEPT !.read = TRUE]]

\* part_007:566-572: prev.map marks the notifications with the id
MarkRead(prev, notificationId) ==
  [i \in DOMAIN prev |->
     IF prev[i].id = notificationId
     THEN [prev[i] EXCEPT !.read = TRUE]
     ELSE prev[i]]

\* part_007:558-577: the PUT settles; a failure is thrown again
MarkedAsRead(w, notificationId, o) ==
  LET w1 == [w EXCEPT !.npReadReqs = @ (-) SetToBag({notificationId})]
  IN IF o = "ok"
     THEN [w1 EXCEPT !.npNotifications = MarkRead(@, notificationId),
                     !.callResult = "resolved"]
     ELSE [w1 EXCEPT !.callResult = "rejected"]

\* part_007:579-593: markAllAsRead
markAllAsRead(w) ==
  IF w.authUser = None THEN [w EXCEPT !.callResult = "resolved"]
  ELSE IF ~w.authToken THEN [w EXCEPT !.callResult = "rejected"]
  ELSE [w EXCEPT !.npReadAllReqs = @ + 1]

\* part_007:595-597: prev.map marks every notification
MarkAllRead(prev) == [i \in DOMAIN prev |-> [prev[i] EXCEPT !.read = TRUE]]

\* part_007:587-602: the PUT settles
AllMarkedAsRead(w, o) ==
  LET w1 == [w EXCEPT !.npReadAllReqs = @ - 1]
  IN IF o = "ok"
     THEN [w1 EXCEPT !.npNotifications = MarkAllRead(@),
                     !.callResult = "resolved"]
     ELSE [w1 EXCEPT !.callResult = "rejected"]

\* part_007:604-615: deleteNotification
deleteNotification(w, notificationId) ==
  IF w.authUser = None THEN [w EXCEPT !.callResult = "resolved"]
  ELSE IF ~w.authToken THEN [w EXCEPT !.callResult = "rejected"]
  ELSE [w EXCEPT !.npDeleteReqs = @ (+) SetToBag({notificationId})]

\* part_007:617-619: prev.filter keeps the notifications of another id
WithoutNotification(prev, notificationId) ==
  LET Other(n) == n.id # notificationId IN SelectSeq(prev, Other)

\* part_007:612-624: the DELETE settles
NotificationDeleted(w, notificationId, o) ==
  LET w1 == [w EXCEPT !.npDeleteReqs = @ (-) SetToBag({notificationId})]
  IN IF o = "ok"
     THEN [w1 EXCEPT !.npNotifications =
                       WithoutNotification(@, notificationId),
                     !.callResult = "resolved"]
     ELSE [w1 EXCEPT !.callResult = "rejected"]

\* part_007:626-637
clearAllNotifications(w) ==
  IF w.authUser = None \/ ~w.authToken THEN w
  ELSE [w EXCEPT !.npClearReqs = @ + 1]

\* part_007:635-643: the DELETE settles
AllNotificationsCleared(w, o) ==
  LET w1 == [w EXCEPT !.npClearReqs = @ - 1]
  IN IF o = "ok" THEN [w1 EXCEPT !.npNotifications = <<>>] ELSE w1

\* the effects of the providers after the user changed: the cleanups, the
\* new socket, the listeners on the socket of the render before, the
\* notifications; then the render setSocket causes, which moves the listeners
ProvidersCleanup(w) == ChatProviderListenCleanup(ChatProviderInitCleanup(w))
ProvidersSetup(old, w) ==
  loadNotifications(
    ChatProviderLoadEffect(
      ChatProviderListenEffect(ChatProviderInitEffect(w), old.cpSocket)))
ProvidersListenAgain(old, m) ==
  IF m.cpSocket # old.cpSocket
  THEN ChatProviderListenEffect(ChatProviderListenCleanup(m), m.cpSocket)
  ELSE m
FrontendRender(old, w) ==
  IF w.authDirty
  THEN [ProvidersListenAgain(old, ProvidersSetup(old, ProvidersCleanup(w)))
          EXCEPT !.authDirty = FALSE]
  ELSE w

\* the providers go away: the cleanups run, and what their requests do on
\* settling shows nowhere
FrontendUnmount(w) ==
  [ChatProviderListenCleanup(ChatProviderInitCleanup(w))
     EXCEPT !.cpMounted = FALSE, !.npLoadReqs = 0, !.npClearReqs = 0,
            !.cpFriendsReqs = 0, !.cpRequestsReqs = 0,
            !.cpMsgReqs = EmptyBag, !.cpAcceptReqs = EmptyBag,
            !.cpRejectReqs = EmptyBag, !.cpRemoveReqs = EmptyBag,
            !.npReadReqs = EmptyBag, !.npReadAllReqs = 0,
            !.npDeleteReqs = EmptyBag]

(***************************************************************************)
(* The state before App is mounted                                         *)
(***************************************************************************)
Blank(ls, variant, tr, srvFriends) ==
  [socket |-> 0, sockState |-> <<>>, listeners |-> {},
   appMounted |-> FALSE, isAuthenticated |-> FALSE, user |-> None,
   showLogin |-> TRUE, activeTab |-> "chat", appNotifications |-> <<>>,
   selectedFriend |-> Nil, localStorage |-> ls, appSock |-> 0,
   verifyReqs |-> 0, logoutReqs |-> 0, appNotifReqs |-> 0,
   loginUsername |-> <<>>, loginPassword |-> <<>>, loginError |-> Nil,
   loginIsLoading |-> FALSE, loginReqs |-> 0, loginDeadReqs |-> 0,
   regUsername |-> <<>>, regPassword |-> <<>>, regConfirm |-> <<>>,
   regError |-> Nil, regIsLoading |-> FALSE, regReqs |-> 0,
   regDeadReqs |-> 0,
   messages |-> <<>>, rooms |-> <<>>, currentRoom |-> "",
   directChatMode |-> FALSE, message |-> <<>>, isTyping |-> FALSE,
   typingTimer |-> None, orphanTimers |-> {}, typingUsers |-> <<>>,
   crSock |-> 0, joinCleanup |-> None, roomsReqs |-> EmptyBag,
   friends |-> <<>>, newFriend |-> "", flError |-> "", flSuccess |-> <<>>,
   flIsLoading |-> FALSE, suggestions |-> <<>>, targetUser |-> "",
   isConnected |-> Nil, path |-> <<>>, flFriendsReqs |-> 0,
   flSuggReqs |-> 0, flAddReqs |-> EmptyBag, flRemoveReqs |-> EmptyBag,
   flConnReqs |-> 0, flPathReqs |-> 0, serverFriends |-> srvFriends,
   nfVariant |-> variant, nfNotifications |-> <<>>, nfIsLoading |-> FALSE,
   nfError |-> Nil, nfSock |-> 0, nfFetchReqs |-> 0, nfClearReqs |-> 0,
   bio |-> "", avatar |-> "", profIsLoading |-> FALSE, profError |-> "",
   profSuccess |-> "", profReqs |-> EmptyBag,
   authUser |-> None, authToken |-> FALSE,
   cpMounted |-> (tr = "frontend"), cpSocket |-> 0, cpInitSock |-> 0,
   cpListenSock |-> 0, cpFriends |-> <<>>, cpFriendRequests |-> <<>>,
   cpMessages |-> [i \in UserIds |-> <<>>], cpCurrentChat |-> None,
   cpLoadingFriends |-> FALSE, cpLoadingMessages |-> FALSE,
   cpFriendsReqs |-> 0, cpRequestsReqs |-> 0, cpMsgReqs |-> EmptyBag,
   cpAcceptReqs |-> EmptyBag, cpRejectReqs |-> EmptyBag,
   cpRemoveReqs |-> EmptyBag,
   npNotifications |-> <<>>, npLoading |-> FALSE, npLoadReqs |-> 0,
   npClearReqs |-> 0, npReadReqs |-> EmptyBag, npReadAllReqs |-> 0,
   npDeleteReqs |-> EmptyBag,
   tree |-> tr, received |-> <<>>, emitted |-> <<>>, lastOp |-> "Init",
   lastOutcome |-> "", posts |-> {}, nEvents |-> 0,
   lastEvent |-> None, callResult |-> "",
   joined |-> [open |-> <<>>, clash |-> FALSE],
   userDirty |-> FALSE, roomsDirty |-> FALSE, authDirty |-> FALSE]

\* what local storage may hold when the page is opened: nothing, the JSON
\* of a user, or a text that does not parse
StoredTexts ==
  {<<>>, <<"{", Me>>} \cup {JSONstringify(u) : u \in UserRecords}

\* what the join and leave events of a step make of the conversations that
\* are joined: a join opens one, and is a clash when one is open already; a
\* leave closes the one it names
Conversation(e) == [room |-> e.room, friend |-> e.friend]
WithoutFirst(q, d) ==
  IF \E i \in 1..Len(q) : q[i] = d
  THEN LET i == CHOOSE k \in 1..Len(q) :
                  q[k] = d /\ \A j \in 1..(k - 1) : q[j] # d
       IN SubSeq(q, 1, i - 1) \o SubSeq(q, i + 1, Len(q))
  ELSE q
RECURSIVE AfterEvents(_, _)
AfterEvents(j, es) ==
  IF es = <<>> THEN j
  ELSE LET e == Head(es)
           j1 == IF e.ev = "join"
                 THEN [open |-> Append(j.open, Conversation(e)),
                       clash |-> j.clash \/ j.open # <<>>]
                 ELSE IF e.ev = "leave"
                 THEN [j EXCEPT !.open = WithoutFirst(@, Conversation(e))]
                 ELSE j
       IN AfterEvents(j1, Tail(es))
Tracked(w) == [w EXCEPT !.joined = AfterEvents(@, w.emitted)]

\* one step of the client tree: the handler's result, then the render
Step(w) == Commit(Tracked(Render(World, w)))

(***************************************************************************)
(* Actions of the client tree: App                                         *)
(***************************************************************************)
AppMount ==
  /\ tree = "client" /\ ~appMounted
  /\ Step(AppMountEffect([Begin("AppMount") EXCEPT !.appMounted = TRUE]))

\* the page is loaded again: local storage and the server keep their state
PageReload ==
  /\ tree = "client" /\ appMounted
  /\ Commit([Blank(localStorage, nfVariant, tree, serverFriends)
               EXCEPT !.lastOp = "PageReload"])

ClickLogout ==
  /\ tree = "client" /\ isAuthenticated /\ user # None
  /\ Step(handleLogout(Begin("ClickLogout")))

LogoutResponse(O) ==
  /\ logoutReqs > 0
  /\ \E o \in O :
       Step(LogoutSettled([Begin("LogoutResponse")
                             EXCEPT !.lastOutcome = o], o))

VerifyResponse(O) ==
  /\ verifyReqs > 0
  /\ \E o \in O, u \in UserRecords :
       Step(VerifySettled([Begin("VerifyResponse")
                             EXCEPT !.lastOutcome = o], o, u))

NoteLists == {<<>>, <<"n1">>}

AppNotificationsResponse(O) ==
  /\ appNotifReqs > 0
  /\ \E o \in O, list \in NoteLists :
       Step(AppNotificationsFetched(
              [Begin("AppNotificationsResponse")
                 EXCEPT !.lastOutcome = o], o, list))

\* App.tsx:179-215: the buttons of the navigation
ClickTab(t) ==
  /\ tree = "client" /\ isAuthenticated /\ activeTab # t
  /\ Step(SetActiveTab(Begin("ClickTab"), t))

ClickChatTab == ClickTab("chat")
ClickFriendsTab == ClickTab("friends")
ClickProfileTab == ClickTab("profile")
ClickSearchTab == ClickTab("search")
ClickNotificationsTab == ClickTab("notifications")

ToggleForm ==
  /\ tree = "client" /\ appMounted /\ ~isAuthenticated
  /\ Step(SetShowLogin(Begin("ToggleForm"), ~showLogin))

\* FriendsList.tsx:176-178, 227, 383: a friend of the list is clicked
SelectFriend ==
  /\ tree = "client" /\ FriendsListMounted(World)
  /\ \E i \in 1..Len(friends) :
       Step(handleFriendSelect(Begin("SelectFriend"), friends[i]))

(***************************************************************************)
(* Actions of the socket                                                   *)
(***************************************************************************)
SocketConnects ==
  \E s \in 1..Len(sockState) :
    /\ sockState[s] = "connecting"
    /\ Commit([Begin("SocketConnects") EXCEPT !.sockState[s] = "connected"])

\* the transport is lost; the instance reconnects by itself later
SocketDrops ==
  \E s \in 1..Len(sockState) :
    /\ sockState[s] = "connected"
    /\ Commit([Begin("SocketDrops") EXCEPT !.sockState[s] = "connecting"])

Delivered(op) == [Begin(op) EXCEPT !.nEvents = @ + 1]

(***************************************************************************)
(* Actions of the client tree: ChatRoom                                    *)
(***************************************************************************)
\* the payloads of message_history: none, a few, or more than the screen
\* keeps, two messages taking turns so that order shows
HistorySizes == {0, 2, MaxHistory}
History(n, a, b) == [i \in 1..n |-> IF i % 2 = 1 THEN a ELSE b]
Histories ==
  {History(n, Message("bob", "hi"), Message(Me, "yo")) : n \in HistorySizes}

\* the server sends an event on a connected instance; the listener on the
\* instance, if there is one, runs
DeliverMessageHistory ==
  \E s \in 1..Len(sockState), payload \in Histories :
    /\ Connected(World, s)
    /\ Step(When(Listening(World, s, "message_history", "ChatRoom"),
                 LAMBDA w : OnMessageHistory(w, payload),
                 Delivered("DeliverMessageHistory")))

DeliverNewMessage ==
  \E s \in 1..Len(sockState), data \in MessageValues :
    /\ Connected(World, s)
    /\ Step(When(Listening(World, s, "new_message", "ChatRoom"),
                 LAMBDA w : OnNewMessage(w, data),
                 Delivered("DeliverNewMessage")))

DeliverTypingUpdate ==
  \E s \in 1..Len(sockState), u \in {Me, "bob"}, t \in BOOLEAN :
    /\ Connected(World, s)
    /\ Step(When(Listening(World, s, "typing_update", "ChatRoom"),
                 LAMBDA w : OnTypingUpdate(w, u, t),
                 Begin("DeliverTypingUpdate")))

\* what can be typed into the message field
MessageTexts == {<<>>, <<" ">>, <<"h">>}

TypeMessage ==
  /\ tree = "client" /\ ChatRoomMounted(World)
  /\ \E v \in MessageTexts \ {message} :
       Step(handleInputChange(Begin("TypeMessage"), v))

SendMessage ==
  /\ tree = "client" /\ ChatRoomMounted(World)
  /\ Step(handleSendMessage(Begin("SendMessage")))

\* ChatRoom.tsx:147: the two seconds of the pending timeout pass
TypingTimeout ==
  /\ typingTimer # None
  /\ Step(TypingTimeoutFires([Begin("TypingTimeout")
                                EXCEPT !.typingTimer = None],
                             Get(typingTimer), TRUE))

\* the timeout of an instance that is gone
OrphanTimeout ==
  \E t \in orphanTimers :
    Step(TypingTimeoutFires([Begin("OrphanTimeout")
                               EXCEPT !.orphanTimers = @ \ {t}], t, FALSE))

RoomLists == {<<>>, <<"General", "Random">>}

RoomsResponse(O) ==
  \E req \in BagToSet(roomsReqs), o \in O, list \in RoomLists :
    Step(IF o = "ok"
         THEN RoomsLoaded([Begin("RoomsResponse")
                             EXCEPT !.roomsReqs = @ (-) SetToBag({req}),
                                    !.lastOutcome = o], req, list)
         ELSE [Begin("RoomsResponse")
                 EXCEPT !.roomsReqs = @ (-) SetToBag({req}),
                        !.lastOutcome = o])

ClickRoomTab ==
  /\ tree = "client" /\ ChatRoomMounted(World)
  /\ \E i \in 1..Len(rooms) :
       Step(RoomTabClicked(Begin("ClickRoomTab"), rooms[i]))

(***************************************************************************)
(* Actions of the client tree: FriendsList                                 *)
(***************************************************************************)
\* FriendsList.tsx:276, 279: the field of the add form
TypeNewFriend(V) ==
  /\ tree = "client" /\ FriendsListMounted(World) /\ ~flIsLoading
  /\ \E v \in V \ {newFriend} :
       Step([Begin("TypeNewFriend") EXCEPT !.newFriend = v])

\* FriendsList.tsx:272: the add form is submitted
SubmitAddFriend ==
  /\ tree = "client" /\ FriendsListMounted(World)
  /\ Step(handleAddFriend(Begin("SubmitAddFriend")))

\* FriendsList.tsx:295-309: the Add button of a suggestion
ClickAddSuggested ==
  /\ tree = "client" /\ FriendsListMounted(World) /\ ~flIsLoading
  /\ \E i \in 1..Len(suggestions) :
       Step(handleAddSuggestedFriend(Begin("ClickAddSuggested"),
                                     suggestions[i]))

\* FriendsList.tsx:358-393: the Remove button of a friend, confirmed
ClickRemoveFriend ==
  /\ tree = "client" /\ FriendsListMounted(World) /\ ~flIsLoading
  /\ \E i \in 1..Len(friends) :
       Step(handleRemoveFriend(Begin("ClickRemoveFriend"), friends[i]))

\* the server answers with the friends it holds, and suggests the users
\* that are not friends
FriendsResponse(O) ==
  /\ flFriendsReqs > 0
  /\ \E o \in O :
       Step(FriendsFetched([Begin("FriendsResponse") EXCEPT !.lastOutcome = o],
                           o, Listed(serverFriends)))

SuggestionsResponse(O) ==
  /\ flSuggReqs > 0
  /\ \E o \in O :
       Step(SuggestionsFetched(
              [Begin("SuggestionsResponse") EXCEPT !.lastOutcome = o],
              o, Listed(Friends \ serverFriends)))

\* the server adds only users it knows
AddResponse(O) ==
  \E req \in BagToSet(flAddReqs), o \in O :
    /\ o = "ok" => req.name \in Friends
    /\ Step(AddSettled([Begin("AddResponse") EXCEPT !.lastOutcome = o],
                       req, o))

RemoveResponse(O) ==
  \E req \in BagToSet(flRemoveReqs), o \in O :
    Step(RemoveSettled([Begin("RemoveResponse") EXCEPT !.lastOutcome = o],
                       req, o))

\* FriendsList.tsx:326: the field of the connection check
TypeTargetUser ==
  /\ tree = "client" /\ FriendsListMounted(World)
  /\ \E v \in {"", "bob"} \ {targetUser} :
       Step([Begin("TypeTargetUser") EXCEPT !.targetUser = v])

\* FriendsList.tsx:331-333
ClickCheckConnection ==
  /\ tree = "client" /\ FriendsListMounted(World)
  /\ ~flIsLoading /\ ~IsBlank(targetUser)
  /\ Step(handleCheckConnection(Begin("ClickCheckConnection")))

ConnectionResponse(O) ==
  /\ flConnReqs > 0
  /\ \E o \in O, c \in {"true", "false"} :
       Step(ConnectionSettled(
              [Begin("ConnectionResponse") EXCEPT !.lastOutcome = o], o, c))

PathResponse(O) ==
  /\ flPathReqs > 0
  /\ \E o \in O, q \in {<<>>, <<Me, "bob">>} :
       Step(PathSettled([Begin("PathResponse") EXCEPT !.lastOutcome = o],
                        o, q))

(***************************************************************************)
(* Actions of the client tree: Login and Register                          *)
(***************************************************************************)
\* what can be typed into a field of the two forms
Valid == <<"a", "b", "c", "d", "e", "f">>
FieldTexts == {<<>>, <<" ">>, <<"a", "b">>, Valid}

TypeLoginUsername(V) ==
  /\ LoginMounted(World) /\ ~loginIsLoading
  /\ \E v \in V :
       /\ Trim(v) # loginUsername
       /\ Step(LoginSetUsername(Begin("TypeLoginUsername"), v))

TypeLoginPassword(V) ==
  /\ LoginMounted(World) /\ ~loginIsLoading
  /\ \E v \in V \ {loginPassword} :
       Step(LoginSetPassword(Begin("TypeLoginPassword"), v))

\* Login.tsx:70: the form is submitted
SubmitLogin ==
  /\ LoginMounted(World)
  /\ Step(LoginSubmit(Begin("SubmitLogin")))

\* the login request settles, for the form that sent it or after that form
\* went away
LoginResponseAs(O, U) ==
  \E o \in O, u \in U :
    \/ /\ loginReqs > 0
       /\ Step(LoginSettled([Begin("LoginResponse") EXCEPT !.lastOutcome = o],
                            TRUE, o, u))
    \/ /\ loginDeadReqs > 0
       /\ Step(LoginSettled(
                 [Begin("LoginLateResponse") EXCEPT !.lastOutcome = o],
                 FALSE, o, u))

LoginResponse(O) == LoginResponseAs(O, UserRecords)

TypeRegisterUsername(V) ==
  /\ RegisterMounted(World) /\ ~regIsLoading
  /\ \E v \in V :
       /\ Trim(v) # regUsername
       /\ Step(RegisterSetUsername(Begin("TypeRegisterUsername"), v))

TypeRegisterPassword(V) ==
  /\ RegisterMounted(World) /\ ~regIsLoading
  /\ \E v \in V \ {regPassword} :
       Step(RegisterSetPassword(Begin("TypeRegisterPassword"), v))

TypeRegisterConfirm(V) ==
  /\ RegisterMounted(World) /\ ~regIsLoading
  /\ \E v \in V \ {regConfirm} :
       Step(RegisterSetConfirm(Begin("TypeRegisterConfirm"), v))

\* Register.tsx:82: the form is submitted
SubmitRegister ==
  /\ RegisterMounted(World)
  /\ Step(RegisterSubmit(Begin("SubmitRegister")))

RegisterResponse(O) ==
  \E o \in O :
    \/ /\ regReqs > 0
       /\ Step(RegisterSettled(
                 [Begin("RegisterResponse") EXCEPT !.lastOutcome = o],
                 TRUE, o))
    \/ /\ regDeadReqs > 0
       /\ Step(RegisterSettled(
                 [Begin("RegisterLateResponse") EXCEPT !.lastOutcome = o],
                 FALSE, o))

(***************************************************************************)
(* Actions of the client tree: Notifications and Profile                   *)
(***************************************************************************)
\* a new_notification event reaches every listener on the instance
DeliverNewNotification ==
  \E s \in 1..Len(sockState), note \in Notes :
    /\ Connected(World, s)
    /\ Step(When(Listening(World, s, "new_notification", "Notifications"),
                 LAMBDA w : NotificationsOnNew(w, note),
            When(Listening(World, s, "new_notification", "App"),
                 LAMBDA w : AppOnNewNotification(w, note),
                 Begin("DeliverNewNotification"))))

\* part_004:82-84, part_000:79-81: the Clear button
ClickClearNotifications ==
  /\ tree = "client" /\ NotificationsMounted(World) /\ ~nfIsLoading
  /\ Step(clearNotifications(Begin("ClickClearNotifications")))

NotificationsResponse(O) ==
  /\ nfFetchReqs > 0
  /\ \E o \in O, list \in NoteLists :
       Step(NotificationsFetched(
              [Begin("NotificationsResponse") EXCEPT !.lastOutcome = o],
              o, list))

ClearResponse(O) ==
  /\ nfClearReqs > 0
  /\ \E o \in O :
       Step(NotificationsCleared(
              [Begin("ClearResponse") EXCEPT !.lastOutcome = o], o))

\* Profile.tsx:119, 123: the bio field
TypeBio ==
  /\ tree = "client" /\ ProfileMounted(World) /\ ~profIsLoading
  /\ \E b \in Bios \ {bio} : Step([Begin("TypeBio") EXCEPT !.bio = b])

\* Profile.tsx:111: the form is submitted
SubmitProfile ==
  /\ tree = "client" /\ ProfileMounted(World)
  /\ Step(ProfileSubmit(Begin("SubmitProfile")))

\* the PUT settles, for the form that sent it or after that form went away
ProfileResponse(O) ==
  \E req \in BagToSet(profReqs), o \in O :
    Step(ProfileSettled(
           [Begin(IF req.live THEN "ProfileResponse"
                  ELSE "ProfileLateResponse")
              EXCEPT !.lastOutcome = o, !.lastEvent = Some(req)],
           req, o))

(***************************************************************************)
(* Actions of the second client tree                                       *)
(***************************************************************************)
FrontendStep(w) == Commit(FrontendRender(World, w))

\* part_007:409-438: a login or a registration succeeds
ProviderLogin ==
  /\ tree = "frontend" /\ cpMounted
  /\ \E id \in {"u1", "u2"} \ (IF authUser = None THEN {} ELSE {Get(authUser)}) :
       FrontendStep(AuthLoggedIn(Begin("ProviderLogin"), id))

ProviderLogout ==
  /\ tree = "frontend" /\ cpMounted /\ authUser # None
  /\ FrontendStep(AuthLogout(Begin("ProviderLogout")))

ProvidersUnmount ==
  /\ tree = "frontend" /\ cpMounted
  /\ Commit(FrontendUnmount(Begin("ProvidersUnmount")))

\* the message, friend_request and friend_status events; lastEvent keeps
\* the payload and whether a listener of ChatProvider heard it
ChatMessages ==
  {[senderId |-> "u1", receiverId |-> "u2"],
   [senderId |-> "u2", receiverId |-> "u1"]}

Heard(s, ev, data) ==
  [Delivered(ev) EXCEPT !.lastEvent =
     Some([heard |-> Listening(World, s, ev, "ChatProvider"),
           me |-> authUser, data |-> data])]

DeliverChatMessage ==
  \E s \in 1..Len(sockState), msg \in ChatMessages :
    /\ Connected(World, s)
    /\ FrontendStep(When(Listening(World, s, "message", "ChatProvider"),
                         LAMBDA w : ChatProviderOnMessage(w, msg),
                         [Heard(s, "message", msg)
                            EXCEPT !.lastOp = "DeliverChatMessage"]))

DeliverFriendRequest ==
  \E s \in 1..Len(sockState) :
    /\ Connected(World, s)
    /\ FrontendStep(When(Listening(World, s, "friend_request", "ChatProvider"),
                         LAMBDA w : ChatProviderOnFriendRequest(
                                      w, Friend("u3", "online")),
                         Delivered("DeliverFriendRequest")))

DeliverFriendStatus ==
  \E s \in 1..Len(sockState), id \in UserIds, st \in {"online", "offline"} :
    /\ Connected(World, s)
    /\ FrontendStep(When(Listening(World, s, "friend_status", "ChatProvider"),
                         LAMBDA w : ChatProviderOnFriendStatus(w, id, st),
                         [Heard(s, "friend_status",
                                [userId |-> id, status |-> st])
                            EXCEPT !.lastOp = "DeliverFriendStatus"]))

\* what the server holds: the friends and the friend requests of the user
ProviderFriendLists ==
  {<<>>, <<Friend("u2", "offline"), Friend("u3", "offline")>>}
ProviderRequestLists == {<<Friend("u3", "online")>>}

ProviderFriendsResponse(O) ==
  /\ cpFriendsReqs > 0
  /\ \E o \in O, list \in ProviderFriendLists :
       FrontendStep(FriendsLoaded(
                      [Begin("ProviderFriendsResponse")
                         EXCEPT !.lastOutcome = o], o, list))

ProviderRequestsResponse(O) ==
  /\ cpRequestsReqs > 0
  /\ \E o \in O, list \in ProviderRequestLists :
       FrontendStep(FriendRequestsLoaded(
                      [Begin("ProviderRequestsResponse")
                         EXCEPT !.lastOutcome = o], o, list))

\* ChatContext.tsx:331: a screen selects a friend of the list as the chat
SelectChat ==
  /\ tree = "frontend" /\ cpMounted
  /\ \E i \in 1..Len(cpFriends) :
       /\ Some(cpFriends[i]) # cpCurrentChat
       /\ FrontendStep(SetCurrentChat(Begin("SelectChat"),
                                      Some(cpFriends[i])))

\* the conversation the server holds: a message of the friend
ProviderConversations(friendId) ==
  {<<[senderId |-> friendId, receiverId |-> "u1"]>>}

ProviderMessagesResponse(O) ==
  \E friendId \in BagToSet(cpMsgReqs), o \in O :
    \E list \in ProviderConversations(friendId) :
      FrontendStep(MessagesLoaded(
                     [Begin("ProviderMessagesResponse")
                        EXCEPT !.lastOutcome = o], friendId, o, list))

\* ChatContext.tsx:335-337: a screen calls the provider for a request or a
\* friend it shows
CallAcceptFriendRequest ==
  /\ tree = "frontend" /\ cpMounted
  /\ \E i \in 1..Len(cpFriendRequests) :
       FrontendStep(acceptFriendRequest(Begin("CallAcceptFriendRequest"),
                                        cpFriendRequests[i].id))

\* the server returns the friend it made of the user
AcceptResponse(O) ==
  \E userId \in BagToSet(cpAcceptReqs), o \in O :
    FrontendStep(AcceptSettled(
                   [Begin("AcceptResponse")
                      EXCEPT !.lastOutcome = o,
                             !.lastEvent = Some([userId |-> userId])],
                   userId, o, Friend(userId, "online")))

CallRejectFriendRequest ==
  /\ tree = "frontend" /\ cpMounted
  /\ \E i \in 1..Len(cpFriendRequests) :
       FrontendStep(rejectFriendRequest(Begin("CallRejectFriendRequest"),
                                        cpFriendRequests[i].id))

RejectResponse(O) ==
  \E userId \in BagToSet(cpRejectReqs), o \in O :
    FrontendStep(RejectSettled(
                   [Begin("RejectResponse")
                      EXCEPT !.lastOutcome = o,
                             !.lastEvent = Some([userId |-> userId])],
                   userId, o))

CallRemoveFriend ==
  /\ tree = "frontend" /\ cpMounted
  /\ \E i \in 1..Len(cpFriends) :
       FrontendStep(removeFriend(Begin("CallRemoveFriend"),
                                 cpFriends[i].id))

RemoveFriendResponse(O) ==
  \E req \in BagToSet(cpRemoveReqs), o \in O :
    FrontendStep(RemoveFriendSettled(
                   [Begin("RemoveFriendResponse")
                      EXCEPT !.lastOutcome = o,
                             !.lastEvent = Some([userId |-> req.id])],
                   req, o))

\* the notifications of the provider are records with a read flag
ProviderNoteLists == {<<>>, <<[id |-> "n1", read |-> FALSE]>>}

\* GET /api/notifications answers with one of the lists L
LoadResponseFrom(O, L) ==
  /\ npLoadReqs > 0
  /\ \E o \in O, list \in L :
       FrontendStep(NotificationsLoaded(
                      [Begin("LoadResponse") EXCEPT !.lastOutcome = o],
                      o, list))

LoadResponse(O) == LoadResponseFrom(O, ProviderNoteLists)

\* lists of two notifications, read and unread, in both orders
Note(id, read) == [id |-> id, read |-> read]
ProviderReadLists ==
  {<<Note("n1", FALSE), Note("n2", FALSE)>>,
   <<Note("n2", TRUE), Note("n1", FALSE)>>}

\* the ids a caller passes: of a notification in the list or of none
NoteIds == {"n1", "n9"}

CallMarkAsRead ==
  /\ tree = "frontend" /\ cpMounted
  /\ \E id \in NoteIds :
       FrontendStep(markAsRead([Begin("CallMarkAsRead")
                                  EXCEPT !.lastEvent = Some([id |-> id])],
                               id))

MarkAsReadResponse(O) ==
  \E id \in BagToSet(npReadReqs), o \in O :
    FrontendStep(MarkedAsRead(
                   [Begin("MarkAsReadResponse")
                      EXCEPT !.lastOutcome = o,
                             !.lastEvent = Some([id |-> id])],
                   id, o))

CallMarkAllAsRead ==
  /\ tree = "frontend" /\ cpMounted
  /\ FrontendStep(markAllAsRead(Begin("CallMarkAllAsRead")))

MarkAllAsReadResponse(O) ==
  /\ npReadAllReqs > 0
  /\ \E o \in O :
       FrontendStep(AllMarkedAsRead(
                      [Begin("MarkAllAsReadResponse")
                         EXCEPT !.lastOutcome = o],
                      o))

CallDeleteNotification ==
  /\ tree = "frontend" /\ cpMounted
  /\ \E id \in NoteIds :
       FrontendStep(deleteNotification(
                      [Begin("CallDeleteNotification")
                         EXCEPT !.lastEvent = Some([id |-> id])],
                      id))

DeleteNotificationResponse(O) ==
  \E id \in BagToSet(npDeleteReqs), o \in O :
    FrontendStep(NotificationDeleted(
                   [Begin("DeleteNotificationResponse")
                      EXCEPT !.lastOutcome = o,
                             !.lastEvent = Some([id |-> id])],
                   id, o))

CallClearAll ==
  /\ tree = "frontend" /\ cpMounted
  /\ FrontendStep(clearAllNotifications(Begin("CallClearAll")))

ClearAllResponse(O) ==
  /\ npClearReqs > 0
  /\ \E o \in O :
       FrontendStep(AllNotificationsCleared(
                      [Begin("ClearAllResponse") EXCEPT !.lastOutcome = o],
                      o))

(***************************************************************************)
(* Specifications                                                          *)
(***************************************************************************)
\* the page is opened with a session in local storage
InitSession ==
  \E u \in UserRecords :
    InitWith(Blank(JSONstringify(u), "part_004", "client", {"bob"}))

\* ChatRoom receiving its events
NextMessages ==
  \/ AppMount
  \/ SocketConnects
  \/ DeliverMessageHistory
  \/ DeliverNewMessage

SpecMessages == InitSession /\ [][NextMessages]_vars

\* C1: after any sequence of message_history and new_message events the
\* messages list of ChatRoom holds at most MAX_MESSAGES entries, also when a
\* history payload alone is longer than that
C1_MessagesCapped == Len(messages) <= MAX_MESSAGES

\* more than MAX_MESSAGES messages were received, one payload being longer
\* than the cap, and the list is full
C1_Witness ==
  /\ lastOp \in {"DeliverMessageHistory", "DeliverNewMessage"}
  /\ Len(received) > MAX_MESSAGES + 1
  /\ Len(messages) = MAX_MESSAGES

\* C2: the messages list is the last min(n, MAX_MESSAGES) entries of the
\* concatenation, in arrival order, of every payload received since the
\* mount: duplicates are kept and nothing is reordered
C2_MessagesAreTail ==
  LET n == Len(received)
      k == IF n <= MAX_MESSAGES THEN n ELSE MAX_MESSAGES
  IN /\ Len(messages) = k
     /\ \A i \in 1..k : messages[i] = received[n - k + i]

\* the cap has cut the front off, and the two newest entries are the same
\* message received twice
C2_Witness ==
  /\ Len(received) > MAX_MESSAGES
  /\ messages[1] # received[1]
  /\ messages[Len(messages)] = messages[Len(messages) - 1]

\* the page is opened with a session, the user having no friends yet
InitNoFriends ==
  InitWith(Blank(JSONstringify(User(Me, "", "")), "part_004", "client", {}))

\* FriendsList adding and removing friends
NextFriends ==
  \/ AppMount
  \/ FriendsResponse({"ok"})
  \/ SuggestionsResponse({"ok"})
  \/ TypeNewFriend(TypedNames)
  \/ SubmitAddFriend
  \/ ClickAddSuggested
  \/ AddResponse({"ok", "refused"})

SpecFriends == InitNoFriends /\ [][NextFriends]_vars

\* C3: FriendsList never issues the POST /api/friends for a username that
\* is in its friends list when the user acts, neither from the add form
\* (handleAddFriend) nor from a suggestion (handleAddSuggestedFriend)
C3_NoPostForFriend == \A q \in posts : ~q.listed

\* the page is opened with nothing in local storage
InitFresh == InitWith(Blank(<<>>, "part_004", "client", {"bob"}))

\* the two forms of a visitor
NextForms ==
  \/ AppMount
  \/ ToggleForm
  \/ TypeLoginUsername(FieldTexts)
  \/ TypeLoginPassword(FieldTexts)
  \/ SubmitLogin
  \/ LoginResponse({"ok", "refused", "reject"})
  \/ TypeRegisterUsername(FieldTexts)
  \/ TypeRegisterPassword(FieldTexts)
  \/ TypeRegisterConfirm(FieldTexts)
  \/ SubmitRegister
  \/ RegisterResponse({"ok", "refused", "reject"})

SpecForms == InitFresh /\ [][NextForms]_vars

\* a required field of the form is empty or whitespace only
LoginBlank == Trim(loginUsername) = <<>> \/ Trim(loginPassword) = <<>>
RegisterBlank ==
  Trim(regUsername) = <<>> \/ Trim(regPassword) = <<>>
    \/ Trim(regConfirm) = <<>>

\* C4: a submit of Login or Register with a required field empty or
\* whitespace only sends no request, sets the form's error, leaves isLoading
\* false and does not call onLogin or onRegister
C4_BlankSubmitStaysLocal ==
  [][/\ (lastOp' = "SubmitLogin" /\ LoginBlank)
          => /\ loginReqs' = loginReqs /\ loginDeadReqs' = loginDeadReqs
             /\ loginError' = "Username and password are required"
             /\ ~loginIsLoading /\ ~loginIsLoading'
             /\ UNCHANGED <<user, isAuthenticated, localStorage, showLogin>>
     /\ (lastOp' = "SubmitRegister" /\ RegisterBlank)
          => /\ regReqs' = regReqs /\ regDeadReqs' = regDeadReqs
             /\ regError' = "All fields are required"
             /\ ~regIsLoading /\ ~regIsLoading'
             /\ UNCHANGED <<user, isAuthenticated, localStorage, showLogin>>
    ]_vars

\* Login was submitted with a username and a password of one space: the
\* error is shown and no request is in flight
C4_Witness ==
  /\ lastOp = "SubmitLogin"
  /\ loginUsername # <<>> /\ loginPassword = <<" ">>
  /\ loginError = "Username and password are required"
  /\ loginReqs = 0 /\ ~loginIsLoading /\ ~isAuthenticated

\* the page is opened with a session, with either file of the Notifications
\* screen, or the providers of the second tree are mounted
InitNotif ==
  \/ \E v \in {"part_004", "part_000"} :
       InitWith(Blank(JSONstringify(User(Me, "", "")), v, "client", {"bob"}))
  \/ InitWith(Blank(<<>>, "part_004", "frontend", {}))

\* the notification lists of the screen and of the provider
NextNotif ==
  \/ AppMount
  \/ ClickNotificationsTab
  \/ ClickChatTab
  \/ SocketConnects
  \/ DeliverNewNotification
  \/ NotificationsResponse({"ok", "reject"})
  \/ ClickClearNotifications
  \/ ClearResponse({"ok", "refused", "reject"})
  \/ ProviderLogin
  \/ LoadResponse({"ok", "reject"})
  \/ CallClearAll
  \/ ClearAllResponse({"ok", "reject"})

SpecNotif == InitNotif /\ [][NextNotif]_vars

InitListeners ==
  \/ InitWith(Blank(JSONstringify(User(Me, "", "")), "part_004", "client",
                    {"bob"}))
  \/ InitWith(Blank(<<>>, "part_004", "frontend", {}))

\* components coming and going while the server sends events
NextListeners ==
  \/ AppMount
  \/ ClickChatTab
  \/ ClickNotificationsTab
  \/ SocketConnects
  \/ DeliverTypingUpdate
  \/ DeliverNewNotification
  \/ ProviderLogin
  \/ ProviderLogout
  \/ ProvidersUnmount
  \/ DeliverFriendRequest

SpecListeners == InitListeners /\ [][NextListeners]_vars

\* C6: once the cleanup of the listener effect of ChatRoom, of Notifications
\* or of ChatProvider has run at the unmount, no listener the component
\* registered is left on any socket, and an event the server sends after the
\* unmount changes nothing of the component's state
C6_ListenersGone ==
  /\ [](\A l \in listeners :
          /\ l[3] = "ChatRoom" => ChatRoomMounted(World)
          /\ l[3] = "Notifications" => NotificationsMounted(World)
          /\ l[3] = "ChatProvider" => cpMounted)
  /\ [][/\ (~ChatRoomMounted(World)
              /\ lastOp' = "DeliverTypingUpdate")
             => UNCHANGED crVars
        /\ (~NotificationsMounted(World)
              /\ lastOp' = "DeliverNewNotification")
             => UNCHANGED nfVars
        /\ (~cpMounted
              /\ lastOp' = "DeliverFriendRequest")
             => UNCHANGED cpVars]_vars

\* ChatRoom has gone, and a typing_update event has been sent on the
\* connected instance its listeners were on
C6_Witness ==
  /\ lastOp = "DeliverTypingUpdate"
  /\ isAuthenticated /\ ~ChatRoomMounted(World)
  /\ \E s \in 1..Len(sockState) :
       /\ sockState[s] = "connected"
       /\ s # socket /\ s # appSock /\ s # nfSock

\* the page is opened by a visitor or with a session, with either file of
\* the Notifications screen
InitErrors ==
  \/ InitFresh
  \/ \E v \in {"part_004", "part_000"} :
       InitWith(Blank(JSONstringify(User(Me, "", "")), v, "client", {"bob"}))

\* the requests of the screens failing
NextErrors ==
  \/ AppMount
  \/ ToggleForm
  \/ TypeLoginUsername({Valid})
  \/ TypeLoginPassword({Valid})
  \/ SubmitLogin
  \/ LoginResponse(FormOutcomes \ {"ok"})
  \/ TypeRegisterUsername({Valid})
  \/ TypeRegisterPassword({Valid})
  \/ TypeRegisterConfirm({Valid})
  \/ SubmitRegister
  \/ RegisterResponse(FormOutcomes \ {"ok"})
  \/ ClickFriendsTab
  \/ ClickProfileTab
  \/ ClickNotificationsTab
  \/ FriendsResponse({"ok", "status", "reject"})
  \/ SuggestionsResponse({"ok", "reject"})
  \/ ClickAddSuggested
  \/ AddResponse({"status", "reject"})
  \/ ClickRemoveFriend
  \/ RemoveResponse({"status", "reject"})
  \/ TypeTargetUser
  \/ ClickCheckConnection
  \/ ConnectionResponse({"status", "reject"})
  \/ PathResponse({"status", "reject"})
  \/ SubmitProfile
  \/ ProfileResponse({"status", "reject"})
  \/ NotificationsResponse({"ok", "status", "reject"})
  \/ ClickClearNotifications
  \/ ClearResponse({"status", "reject"})

SpecErrors == InitErrors /\ [][NextErrors]_vars

NextChatRoom ==
  \/ AppMount
  \/ FriendsResponse({"ok"})
  \/ SuggestionsResponse({"ok"})
  \/ SelectFriend
  \/ TypeNewFriend({"bob"})
  \/ ClickRemoveFriend
  \/ RemoveResponse({"ok"})
  \/ RoomsResponse({"ok"})
  \/ ClickRoomTab
  \/ TypeMessage
  \/ SendMessage

\* the page is opened with a session whose user has one friend, bob
InitChat ==
  InitWith(Blank(JSONstringify(User(Me, "", "")), "part_004", "client",
                 {"bob"}))

SpecChatRoom == InitChat /\ [][NextChatRoom]_vars

\* C8: every 'message' event that handleSendMessage emits has exactly one
\* destination, the one of the conversation shown when the form was
\* submitted: in direct chat mode the friend selectedFriend and no room,
\* otherwise the room currentRoom and no friend; it is the only 'message'
\* event of the submission, and the 'typing' event emitted after it names
\* the same destination
C8_OneDestination ==
  [][lastOp' = "SendMessage" =>
       \A i \in 1..Len(emitted') :
         emitted'[i].ev = "message" =>
           /\ IF directChatMode
              THEN /\ Truthy(selectedFriend)
                   /\ emitted'[i].friend = selectedFriend
                   /\ emitted'[i].room = Undef
              ELSE /\ Truthy(currentRoom)
                   /\ emitted'[i].room = currentRoom
                   /\ emitted'[i].friend = Undef
           /\ \A j \in 1..Len(emitted') :
                emitted'[j].ev = "message" => j = i
           /\ \E j \in (i + 1)..Len(emitted') :
                /\ emitted'[j].ev = "typing"
                /\ emitted'[j].room = emitted'[i].room
                /\ emitted'[j].friend = emitted'[i].friend
                /\ emitted'[j].sock = emitted'[i].sock]_vars

\* a message has been sent to a friend from a ChatRoom that knew its rooms
C8_Witness ==
  /\ lastOp = "SendMessage" /\ directChatMode /\ Len(rooms) > 0
  /\ \E i \in 1..Len(emitted) :
       emitted[i].ev = "message" /\ emitted[i].friend = "bob"

(***************************************************************************)
(* Logging out of a session with notifications and a selected friend       *)
(***************************************************************************)
NextLogout ==
  \/ AppMount
  \/ SocketConnects
  \/ VerifyResponse({"ok", "refused", "reject"})
  \/ AppNotificationsResponse({"ok"})
  \/ FriendsResponse({"ok"})
  \/ SelectFriend
  \/ ClickLogout
  \/ LogoutResponse({"ok", "refused", "reject"})

SpecLogout == InitChat /\ [][NextLogout]_vars

\* C9: once the request of handleLogout has completed, with a success
\* response, a success:false response or a network error, user is null,
\* isAuthenticated is false, the notifications list is empty, selectedFriend
\* is null, local storage has no 'user' entry and the socket has been
\* disconnected
C9_DroppedOnLogout ==
  lastOp = "LogoutResponse" =>
    /\ user = None
    /\ ~isAuthenticated
    /\ appNotifications = <<>>
    /\ selectedFriend = Nil
    /\ localStorage = <<>>
    /\ socket = 0

(***************************************************************************)
(* The session: login, verification, profile update, logout, reload        *)
(***************************************************************************)
InitStored ==
  \E ls \in StoredTexts : InitWith(Blank(ls, "part_004", "client", {}))

NextSession ==
  \/ AppMount
  \/ PageReload
  \/ ToggleForm
  \/ TypeLoginUsername({Valid})
  \/ TypeLoginPassword({Valid})
  \/ SubmitLogin
  \/ LoginResponse({"ok"})
  \/ VerifyResponse({"ok", "refused"})
  \/ ClickProfileTab
  \/ TypeBio
  \/ SubmitProfile
  \/ ProfileResponse({"ok"})
  \/ ClickLogout
  \/ LogoutResponse({"ok", "refused", "reject"})

SpecSession == InitStored /\ [][NextSession]_vars

\* C10: once the mount effect of App has run, whenever user is not null
\* local storage holds under 'user' a text that parses to that same record,
\* whatever the order of logins, verifications, profile updates and logouts;
\* and the mount effect, finding a stored text that parses, leaves an
\* authenticated session of the user it parses to
C10_StorageTracksUser ==
  /\ [](appMounted /\ user # None =>
          Parseable(localStorage) /\ JSONparse(localStorage) = Get(user))
  /\ [][lastOp' = "AppMount" /\ Parseable(localStorage) =>
          /\ isAuthenticated'
          /\ user' = Some(JSONparse(localStorage))
          /\ localStorage' = localStorage]_vars

\* a profile update has changed the user of a session that a login opened
\* on a page that had nothing stored
C10_Witness ==
  /\ lastOp \in {"ProfileResponse", "ProfileLateResponse"}
  /\ lastOutcome = "ok"
  /\ user # None /\ Get(user).bio = "b1"
  /\ localStorage = JSONstringify(Get(user))

\* C15: when the request of handleLogout rejects, the session is dropped all
\* the same: user is null, isAuthenticated is false, nothing is stored under
\* 'user', and the socket of the module is disconnected and forgotten
C15_RejectedLogoutStillLogsOut ==
  [][(lastOp' = "LogoutResponse" /\ lastOutcome' = "reject") =>
       /\ user' = None /\ ~isAuthenticated'
       /\ localStorage' = <<>>
       /\ socket' = 0
       /\ socket # 0 => sockState'[socket] = "closed"]_vars

\* the logout of a restored session with a connected socket was rejected
C15_Witness ==
  /\ lastOp = "LogoutResponse" /\ lastOutcome = "reject"
  /\ user = None /\ ~isAuthenticated /\ localStorage = <<>> /\ socket = 0
  /\ \E s \in 1..Len(sockState) : sockState[s] = "closed"
  /\ selectedFriend = "bob"

\* C18: a submit of Register sends no request when the passwords differ,
\* when the username has fewer than 3 characters or when the password has
\* fewer than 6; and a registration that succeeds authenticates nobody: it
\* clears the form and calls onRegister, which shows the login view, with
\* isAuthenticated false, no user and nothing stored (for a form that is
\* gone by then, onRegister alone runs and the session stays as it is)
C18_RegisterChecksAndNoLogin ==
  /\ [][(lastOp' = "SubmitRegister"
           /\ (regPassword # regConfirm \/ Len(regUsername) < 3
                 \/ Len(regPassword) < 6)) =>
          /\ regReqs' = regReqs /\ regDeadReqs' = regDeadReqs
          /\ ~regIsLoading' /\ Truthy(regError')]_vars
  /\ [][(lastOp' = "RegisterResponse" /\ lastOutcome' = "ok") =>
          /\ ~isAuthenticated' /\ user' = None /\ localStorage' = <<>>
          /\ socket' = socket
          /\ showLogin' /\ LoginMounted(World)'
          /\ regUsername' = <<>> /\ regPassword' = <<>>
          /\ regConfirm' = <<>> /\ regError' = Nil]_vars
  /\ [][(lastOp' = "RegisterLateResponse" /\ lastOutcome' = "ok") =>
          /\ isAuthenticated' = isAuthenticated /\ user' = user
          /\ localStorage' = localStorage /\ showLogin']_vars

\* a username of two characters was submitted with a password that is long
\* enough and confirmed: nothing was sent
C18_Witness ==
  /\ lastOp = "SubmitRegister"
  /\ Len(regUsername) = 2 /\ regPassword = Valid /\ regConfirm = Valid
  /\ regError = "Username must be at least 3 characters"
  /\ regReqs = 0 /\ regDeadReqs = 0 /\ ~regIsLoading

(***************************************************************************)
(* C11, C12: the events ChatProvider listens to                            *)
(***************************************************************************)
InitProvider == InitWith(Blank(<<>>, "part_004", "frontend", {}))

\* a user logs in, the lists and a conversation load, the server tells who
\* is online
NextFriendStatus ==
  \/ ProviderLogin
  \/ SocketConnects
  \/ ProviderFriendsResponse({"ok"})
  \/ ProviderRequestsResponse({"ok"})
  \/ SelectChat
  \/ ProviderMessagesResponse({"ok"})
  \/ DeliverFriendStatus

SpecFriendStatus == InitProvider /\ [][NextFriendStatus]_vars

\* C11: a friend_status event for userId that ChatProvider hears gives the
\* status of the event to the friends whose id is userId and changes nothing
\* else: the list keeps its members and their order, the other friends,
\* friendRequests, messages and currentChat stay as they were, and an event
\* for an id that is not in the list changes nothing at all
C11_OnlyThatFriendsStatus ==
  [][(lastOp' = "DeliverFriendStatus" /\ Get(lastEvent').heard) =>
       LET e == Get(lastEvent').data IN
       /\ Len(cpFriends') = Len(cpFriends)
       /\ \A i \in 1..Len(cpFriends) :
            /\ cpFriends'[i].id = cpFriends[i].id
            /\ cpFriends'[i].username = cpFriends[i].username
            /\ cpFriends'[i].status =
                 (IF cpFriends[i].id = e.userId THEN e.status
                  ELSE cpFriends[i].status)
       /\ cpFriendRequests' = cpFriendRequests
       /\ cpMessages' = cpMessages
       /\ cpCurrentChat' = cpCurrentChat
       /\ (\A i \in 1..Len(cpFriends) : cpFriends[i].id # e.userId)
            => cpFriends' = cpFriends]_vars

\* the event was heard for the second of two friends, who is now online
\* while the first is still offline, the chat being the friend as loaded,
\* with a request and a conversation in the state
C11_Witness ==
  /\ lastOp = "DeliverFriendStatus" /\ Get(lastEvent).heard
  /\ Get(lastEvent).data = [userId |-> "u3", status |-> "online"]
  /\ cpFriends = <<Friend("u2", "offline"), Friend("u3", "online")>>
  /\ cpCurrentChat = Some(Friend("u3", "offline"))
  /\ cpFriendRequests # <<>> /\ cpMessages["u3"] # <<>>

\* a user logs in, conversations load, the server sends messages
NextProviderMessages ==
  \/ ProviderLogin
  \/ SocketConnects
  \/ ProviderFriendsResponse({"ok"})
  \/ ProviderRequestsResponse({"ok"})
  \/ SelectChat
  \/ ProviderMessagesResponse({"ok"})
  \/ DeliverChatMessage

SpecProviderMessages == InitProvider /\ [][NextProviderMessages]_vars

\* C12: a message event that ChatProvider hears goes to the end of exactly
\* one conversation, the one of the other party (the receiver when the
\* current user sent it, the sender otherwise); the other conversations stay
\* as they were
C12_OneConversation ==
  [][(lastOp' = "DeliverChatMessage" /\ Get(lastEvent').heard) =>
       LET msg == Get(lastEvent').data
           me == Get(Get(lastEvent').me)
           other == IF msg.senderId = me THEN msg.receiverId
                    ELSE msg.senderId
       IN /\ DOMAIN cpMessages' = DOMAIN cpMessages \cup {other}
          /\ cpMessages'[other] = Append(cpMessages[other], msg)
          /\ \A k \in DOMAIN cpMessages \ {other} :
               cpMessages'[k] = cpMessages[k]]_vars

\* the user's own message to u2 came after the conversation with u2 had
\* loaded, while the conversation with u3 is in the state too
C12_Witness ==
  /\ lastOp = "DeliverChatMessage" /\ Get(lastEvent).heard
  /\ authUser = Some("u1")
  /\ Get(lastEvent).data = [senderId |-> "u1", receiverId |-> "u2"]
  /\ cpMessages["u2"] = <<[senderId |-> "u2", receiverId |-> "u1"],
                          [senderId |-> "u1", receiverId |-> "u2"]>>
  /\ cpMessages["u3"] # <<>>

(***************************************************************************)
(* C13: the profile update                                                 *)
(***************************************************************************)
\* a session is restored, the profile is edited and sent, the PUT settles in
\* every way, also after a logout and the login of another account
NextProfile ==
  \/ AppMount
  \/ VerifyResponse({"ok"})
  \/ AppNotificationsResponse({"ok"})
  \/ ClickProfileTab
  \/ TypeBio
  \/ SubmitProfile
  \/ ProfileResponse({"ok", "refused", "status", "reject"})
  \/ ClickLogout
  \/ LogoutResponse({"ok"})
  \/ ToggleForm
  \/ TypeLoginUsername({Valid})
  \/ TypeLoginPassword({Valid})
  \/ SubmitLogin
  \/ LoginResponseAs({"ok"}, {User("bob", "", "")})

SpecProfile == InitChat /\ [][NextProfile]_vars

\* C13: a PUT of the profile that fails (the fetch rejects, the status is
\* not ok, or success is false) leaves user and the stored 'user' as they
\* were, and the form that sent it shows an error and is no longer loading;
\* a PUT that succeeds is the only one that changes user, and then user has
\* the bio and the avatar that were submitted and the username it had
C13_OnlySuccessChangesUser ==
  [][lastOp' \in {"ProfileResponse", "ProfileLateResponse"} =>
       LET req == Get(lastEvent') IN
       /\ req.live => ~profIsLoading'
       /\ lastOutcome' # "ok" =>
            /\ user' = user /\ localStorage' = localStorage
            /\ req.live => Truthy(profError')
       /\ (lastOutcome' = "ok" /\ user' # user) =>
            /\ user' # None
            /\ Get(user').bio = req.bio /\ Get(user').avatar = req.avatar
            /\ user # None => Get(user').username = Get(user).username]_vars

(***************************************************************************)
(* C14: the verification of a stored session                               *)
(***************************************************************************)
\* the page is opened with whatever local storage holds, and the requests
\* of the mount settle
NextVerify ==
  \/ AppMount
  \/ SocketConnects
  \/ VerifyResponse({"ok", "refused", "reject"})
  \/ AppNotificationsResponse({"ok", "reject"})
  \/ LogoutResponse({"ok", "refused", "reject"})

\* every fetch settles: a request in flight gets its response or its error,
\* which is the step that takes it off the count of the requests in flight;
\* and the effect of the mount runs
VerifySettles == verifyReqs > 0 /\ verifyReqs' = verifyReqs - 1
LogoutSettles == logoutReqs > 0 /\ logoutReqs' = logoutReqs - 1
Mounts == ~appMounted /\ appMounted' = TRUE

SpecVerify ==
  /\ InitStored /\ [][NextVerify]_vars
  /\ WF_appMounted(Mounts)
  /\ WF_verifyReqs(VerifySettles)
  /\ WF_logoutReqs(LogoutSettles)

\* C14: when the verification of a stored session against /api/profile has
\* failed (success false, or the fetch rejected), the client is eventually
\* unauthenticated, with user null and nothing stored under 'user'
C14_FailedVerificationLogsOut ==
  (lastOp = "VerifyResponse" /\ lastOutcome \in {"refused", "reject"})
    ~> (~isAuthenticated /\ user = None /\ localStorage = <<>>)

(***************************************************************************)
(* C16: the typing indicator                                               *)
(***************************************************************************)
\* the chat is open; the user types, sends, changes the room, or pauses
NextTyping ==
  \/ AppMount
  \/ SocketConnects
  \/ RoomsResponse({"ok"})
  \/ ClickRoomTab
  \/ TypeMessage
  \/ SendMessage
  \/ TypingTimeout

\* a timeout that is pending does not stay pending for ever: its two
\* seconds pass, or a send clears it
TimerEnds == typingTimer # None /\ typingTimer' = None

SpecTyping ==
  /\ InitChat /\ [][NextTyping]_vars
  /\ WF_typingTimer(TimerEnds)

\* the step emitted a typing event with this flag for this destination
TypingEmitted(flag, room, friend) ==
  \E i \in 1..Len(emitted) :
    /\ emitted[i].ev = "typing" /\ emitted[i].typing = flag
    /\ emitted[i].room = room /\ emitted[i].friend = friend

\* C16: every typing event with typing true that handleInputChange emits is
\* eventually followed by a typing event with typing false for the same
\* destination, at the send or when two seconds pass without input, also
\* when the user types a single character and stops
C16_TypingEndsEventually ==
  \A room \in Rooms \cup {Undef, ""}, friend \in Friends \cup {Undef, Nil} :
    (lastOp = "TypeMessage" /\ TypingEmitted(TRUE, room, friend))
      ~> TypingEmitted(FALSE, room, friend)

(***************************************************************************)
(* C17: join and leave                                                     *)
(***************************************************************************)
\* the chat is opened and left through the tabs, friends are selected and
\* removed, rooms are chosen, rooms requests answer late
NextJoin ==
  \/ AppMount
  \/ SocketConnects
  \/ FriendsResponse({"ok"})
  \/ SuggestionsResponse({"ok"})
  \/ SelectFriend
  \/ ClickRemoveFriend
  \/ RemoveResponse({"ok"})
  \/ RoomsResponse({"ok"})
  \/ ClickRoomTab
  \/ ClickFriendsTab
  \/ ClickChatTab

SpecJoin == InitChat /\ [][NextJoin]_vars

\* C17: join and leave events come in pairs: no conversation is joined while
\* one that was joined has not been left, the same one twice included, and
\* once ChatRoom is unmounted the conversation joined last has been left
C17_JoinLeavePaired ==
  /\ ~joined.clash
  /\ Len(joined.open) <= 1
  /\ ~ChatRoomMounted(World) => joined.open = <<>>

\* ChatRoom went away through a tab and left the room it had joined
C17_Witness ==
  /\ lastOp = "ClickTab"
  /\ ~ChatRoomMounted(World)
  /\ joined.open = <<>>
  /\ \E i \in 1..Len(emitted) :
       emitted[i].ev = "leave" /\ emitted[i].room \in Rooms

(***************************************************************************)
(* C19, C20: the calls of ChatProvider                                     *)
(***************************************************************************)
\* a user is logged in, requests arrive, and the screens accept and reject
\* them; the server answers either way
NextRequests ==
  \/ ProviderLogin
  \/ SocketConnects
  \/ ProviderFriendsResponse({"ok"})
  \/ ProviderRequestsResponse({"ok"})
  \/ DeliverFriendRequest
  \/ CallAcceptFriendRequest
  \/ AcceptResponse({"ok", "reject"})
  \/ CallRejectFriendRequest
  \/ RejectResponse({"ok", "reject"})

SpecRequests == InitProvider /\ [][NextRequests]_vars

\* the requests of q that are not of userId, in their order
NotOf(q, userId) == SelectSeq(q, LAMBDA r : r.id # userId)

\* C19: when acceptFriendRequest(u) succeeds, no request of u is left in
\* friendRequests, the other requests stay, and the friend the server
\* returned is appended to friends; when it fails, both lists stay as they
\* were and the call rejects. When rejectFriendRequest(u) succeeds the
\* requests of u are gone and friends stays as it was
C19_AcceptAndReject ==
  /\ [][lastOp' = "AcceptResponse" =>
          LET u == Get(lastEvent').userId IN
          IF lastOutcome' = "ok"
          THEN /\ \A i \in 1..Len(cpFriendRequests') :
                    cpFriendRequests'[i].id # u
               /\ cpFriendRequests' = NotOf(cpFriendRequests, u)
               /\ Len(cpFriends') = Len(cpFriends) + 1
               /\ SubSeq(cpFriends', 1, Len(cpFriends)) = cpFriends
               /\ cpFriends'[Len(cpFriends')].id = u
               /\ callResult' = "resolved"
          ELSE /\ cpFriendRequests' = cpFriendRequests
               /\ cpFriends' = cpFriends
               /\ callResult' = "rejected"]_vars
  /\ [][(lastOp' = "RejectResponse" /\ lastOutcome' = "ok") =>
          LET u == Get(lastEvent').userId IN
          /\ \A i \in 1..Len(cpFriendRequests') : cpFriendRequests'[i].id # u
          /\ cpFriendRequests' = NotOf(cpFriendRequests, u)
          /\ cpFriends' = cpFriends]_vars

\* the accept of u3 succeeded: no request is left, and the friend the
\* server returned is the third of the list
C19_Witness ==
  /\ lastOp = "AcceptResponse" /\ lastOutcome = "ok"
  /\ Get(lastEvent).userId = "u3"
  /\ cpFriendRequests = <<>>
  /\ Len(cpFriends) = 3 /\ cpFriends[3] = Friend("u3", "online")

\* a user is logged in with friends; the screens choose a chat and remove
\* friends while the server answers
NextRemoval ==
  \/ ProviderLogin
  \/ SocketConnects
  \/ ProviderFriendsResponse({"ok"})
  \/ ProviderRequestsResponse({"ok"})
  \/ SelectChat
  \/ ProviderMessagesResponse({"ok"})
  \/ CallRemoveFriend
  \/ RemoveFriendResponse({"ok", "reject"})

SpecRemoval == InitProvider /\ [][NextRemoval]_vars

\* C20: once removeFriend(u) has completed successfully, u is not in friends
\* and the current chat is not the friend u, also when u was chosen as the
\* current chat while the request was in flight
C20_RemovedFriendIsGone ==
  [][(lastOp' = "RemoveFriendResponse" /\ lastOutcome' = "ok") =>
       LET u == Get(lastEvent').userId IN
       /\ \A i \in 1..Len(cpFriends') : cpFriends'[i].id # u
       /\ cpCurrentChat' = None \/ Get(cpCurrentChat').id # u]_vars


\* a user logs in and out while the screens mark and delete notifications
\* and the server answers or fails
NextUnread ==
  \/ ProviderLogin
  \/ ProviderLogout
  \/ LoadResponseFrom({"ok", "reject"}, ProviderReadLists)
  \/ CallMarkAsRead
  \/ MarkAsReadResponse({"ok", "reject"})
  \/ CallMarkAllAsRead
  \/ MarkAllAsReadResponse({"ok", "reject"})
  \/ CallDeleteNotification
  \/ DeleteNotificationResponse({"ok", "reject"})

SpecUnread == InitProvider /\ [][NextUnread]_vars

NoteCalls ==
  {"CallMarkAsRead", "CallMarkAllAsRead", "CallDeleteNotification"}
NoteResponses ==
  {"MarkAsReadResponse", "MarkAllAsReadResponse",
   "DeleteNotificationResponse"}
NotOfId(list, id) == LET Other(n) == n.id # id IN SelectSeq(list, Other)

\* C21: unreadCount is the number of notifications whose read flag is false;
\* a successful markAllAsRead leaves no unread one; a successful
\* markAsRead(id) keeps the members and their order and sets the read flag
\* of the notifications of that id only; a successful deleteNotification(id)
\* removes the notifications of that id only; a failed request of the three,
\* and a call of one of them without a user, leaves the list as it was, and
\* the call without a user sends nothing
C21_UnreadCountAndReadFlags ==
  /\ [](unreadCount(World) =
          Cardinality({i \in DOMAIN npNotifications :
                         ~npNotifications[i].read}))
  /\ [][/\ (lastOp' = "MarkAllAsReadResponse" /\ lastOutcome' = "ok") =>
             /\ unreadCount(World)' = 0
             /\ \A i \in DOMAIN npNotifications' : npNotifications'[i].read
        /\ (lastOp' = "MarkAsReadResponse" /\ lastOutcome' = "ok") =>
             LET id == Get(lastEvent').id IN
             /\ Len(npNotifications') = Len(npNotifications)
             /\ \A i \in DOMAIN npNotifications :
                  /\ npNotifications'[i].id = npNotifications[i].id
                  /\ npNotifications'[i].read =
                       (npNotifications[i].read
                          \/ npNotifications[i].id = id)
        /\ (lastOp' = "DeleteNotificationResponse" /\ lastOutcome' = "ok") =>
             npNotifications' =
               NotOfId(npNotifications, Get(lastEvent').id)
        /\ (lastOp' \in NoteResponses /\ lastOutcome' # "ok") =>
             npNotifications' = npNotifications
        /\ (lastOp' \in NoteCalls /\ authUser = None) =>
             /\ npNotifications' = npNotifications
             /\ UNCHANGED <<npReadReqs, npReadAllReqs, npDeleteReqs>>]_vars

\* markAsRead("n1") succeeded on a list of two unread notifications: n1 is
\* read, n2 is still unread and comes second
C21_Witness ==
  /\ lastOp = "MarkAsReadResponse" /\ lastOutcome = "ok"
  /\ Get(lastEvent).id = "n1"
  /\ npNotifications = <<Note("n1", TRUE), Note("n2", FALSE)>>
  /\ unreadCount(World) = 1


\* the page is opened with a session; the user goes to the Notifications
\* screen and back while the socket connects and the server sends
\* notifications
NextBadge ==
  \/ AppMount
  \/ SocketConnects
  \/ AppNotificationsResponse({"ok"})
  \/ ClickNotificationsTab
  \/ NotificationsResponse({"ok"})
  \/ ClickChatTab
  \/ DeliverNewNotification

SpecBadge == InitChat /\ [][NextBadge]_vars

\* the only connected instances are the one App's notifications effect
\* registered its listener on
OnlyAppSocketConnected ==
  /\ appSock # 0
  /\ \A s \in 1..Len(sockState) : Connected(World, s) => s = appSock

\* C22: while the user is authenticated, a new_notification event delivered
\* on the socket of App's notifications effect is appended to App's
\* notifications, whether the Notifications screen is mounted, was never
\* mounted or was mounted and unmounted
C22_BadgeCountsEveryNotification ==
  [][(/\ lastOp' = "DeliverNewNotification"
      /\ isAuthenticated /\ user # None
      /\ OnlyAppSocketConnected)
       => \E note \in Notes :
            appNotifications' = Append(appNotifications, note)]_vars


\* the page is opened with a session; the verification of the session and
\* an update of the profile are answered before or after the user logs out
NextLate ==
  \/ AppMount
  \/ VerifyResponse({"ok", "refused"})
  \/ AppNotificationsResponse({"ok"})
  \/ ClickProfileTab
  \/ TypeBio
  \/ SubmitProfile
  \/ ProfileResponse({"ok", "reject"})
  \/ ClickLogout
  \/ LogoutResponse({"ok", "reject"})

SpecLate == InitChat /\ [][NextLate]_vars

\* C23: the page was opened with a session, so isAuthenticated is false in
\* the mounted App only once a logout has completed; then user is null and
\* local storage has no 'user' entry, also after the responses that were in
\* flight at the logout have arrived
C23_LoggedOutStaysLoggedOut ==
  (appMounted /\ ~isAuthenticated) => (user = None /\ localStorage = <<>>)

=============================================================================
